---- MODULE Spec2Model ----
(***************************************************************************)
(* Model of kindle2keynote: the PDF extraction stage                       *)
(* (src/src/kindle2keynote/pdf_extractor.py): page-range resolution, text  *)
(* cleaning, table statistics, validation and rendering and the per-page   *)
(* extraction loops; the construction of the converter                     *)
(* (src/src/kindle2keynote/marp_converter.py); and the command line        *)
(* (src/main.py, src/src/pdf2keynote/main.py).                             *)
(*                                                                         *)
(* A Python str is a sequence of one-character strings.  Python's None is  *)
(* a marker value of the same shape as the value it replaces, so that the  *)
(* model can compare it with any text, row or table.                       *)
(***************************************************************************)
EXTENDS Integers, Sequences, FiniteSets, TLC

VARIABLES
    op,             \* the kind of input drawn, then the operation last applied
    total_pages,    \* _get_page_indices: argument total_pages
    page_range,     \* _get_page_indices / extract_*: argument page_range
    indices,        \* _get_page_indices: the returned (start_idx, end_idx)
    text,           \* _clean_text: the text handed to the cleaner; extract: the backend's text
    cleaned,        \* results of the successive _clean_text calls on text
    table,          \* _calculate_table_statistics: the grid
    stats,          \* _calculate_table_statistics: the returned TableStatistics
    num_columns,    \* avg_row_fill_rate: argument num_columns
    ret,            \* value returned by the last call
    doc,            \* extract_*: the pages of the opened PDF
    method,         \* extract_*: the backend that runs
    extract_tables, \* extract_with_pdfplumber: argument extract_tables
    page_idx,       \* extract_*: the loop variable page_idx
    text_content,   \* extract_*: the list text_content of page blocks
    visited,        \* extract_*: the page indices read so far, in order
    pdf_path,       \* PDFExtractor: the attribute self.pdf_path
    args,           \* main: the parsed command line
    exit_status,    \* main: the status passed to sys.exit, 0 at the end of main
    calls,          \* the calls made to the extractor, the converter, the SDK
    env,            \* os.environ: the API key variables
    llm,            \* MarpConverter: the attribute self.llm
    raised,         \* the exception the last call raised
    attempt,        \* AnthropicProvider.generate: the loop variable attempt
    full_response   \* AnthropicProvider.generate: the text streamed so far

extractVars == <<doc, method, extract_tables, page_idx, text_content, visited, pdf_path>>

cliVars == <<args, exit_status, calls, env, llm, raised>>

retryVars == <<attempt, full_response>>

vars == <<op, total_pages, page_range, indices, text, cleaned, table, stats,
          num_columns, ret, extractVars, cliVars, retryVars>>

(***************************************************************************)
(* Bounds of the model.                                                    *)
(***************************************************************************)
MaxPages == 3
MaxTokens == 4
MaxRows == 2
MaxCells == 3

(***************************************************************************)
(* Python values.                                                          *)
(***************************************************************************)
None      == <<"None">>            \* None where a str is expected
NoneRow   == << <<"NoneRow">> >>   \* None where a row (list of cells) is expected
NoneTable == << << <<"NoneTable">> >> >>  \* None where a grid is expected
NoRange   == <<>>                  \* page_range=None
TypeError == [raised |-> "TypeError"]   \* the call raised TypeError
FileNotFoundError(message) == [type |-> "FileNotFoundError", message |-> message]
ZeroDivisionError == <<"ZeroDivisionError">>
Idle == <<>>                       \* value of the variables a run does not use

\* the extraction variables of a run that opens no PDF
NoExtraction ==
    /\ doc = Idle /\ method = "none" /\ extract_tables = FALSE
    /\ page_idx = 0 /\ text_content = Idle /\ visited = Idle
    /\ pdf_path = Idle

\* the variables of main and of the converter in a run that uses neither
NoCli ==
    /\ args = Idle /\ exit_status = Idle /\ calls = Idle
    /\ env = Idle /\ llm = Idle /\ raised = Idle
    /\ attempt = 0 /\ full_response = Idle

(***************************************************************************)
(* PDFExtractor._get_page_indices                                          *)
(***************************************************************************)
\* max(0, start_page) for start_idx: the 1-indexed page kept as the index
GetPageIndicesOneIndexed(total, range) ==
    IF range /= NoRange
    THEN <<(IF range[1] >= 0 THEN range[1] ELSE 0),
           (IF total <= range[2] THEN total ELSE range[2])>>
    ELSE <<0, total>>

_get_page_indices(total, range) ==
    IF range /= NoRange
    THEN LET start_page == range[1]
             end_page   == range[2]
             start_idx  == IF 0 >= start_page - 1 THEN 0 ELSE start_page - 1
             end_idx    == IF total <= end_page THEN total ELSE end_page
         IN  <<start_idx, end_idx>>
    ELSE <<0, total>>

Min(a, b) == IF a <= b THEN a ELSE b

RECURSIVE SumSeq(_)
SumSeq(s) == IF s = <<>> THEN 0 ELSE Head(s) + SumSeq(Tail(s))

(***************************************************************************)
(* Character classes of Python's re module (str patterns), str.strip() and *)
(* int().  A character that has no one-character TLA+ string, a control    *)
(* character or a character beyond ASCII, is written as the decimal of its *)
(* code point: "233" is U+00E9, "160" is U+00A0.                           *)
(***************************************************************************)
Chr(n) == ToString(n)

\* the characters of the code points of a sequence of ranges <<first, last>>
Chars(ranges) ==
    {Chr(n) : n \in UNION {ranges[i][1]..ranges[i][2] : i \in 1..Len(ranges)}}

\* the code points that \s and str.isspace() take for whitespace, apart
\* from space, \t, \n, \r, \f
WhitespaceRanges ==
    <<
        <<11, 11>>, <<28, 31>>, <<133, 133>>, <<160, 160>>, <<5760, 5760>>,
        <<8192, 8202>>, <<8232, 8233>>, <<8239, 8239>>, <<8287, 8287>>,
        <<12288, 12288>>
    >>

\* \s, and what str.strip() and int() strip
Whitespace == {" ", "\n", "\t", "\r", "\f"} \cup Chars(WhitespaceRanges)

\* the code points of the zeros of the decimal digits beyond ASCII: each is
\* followed by its digits 1 to 9
DigitZeros ==
    <<
        1632, 1776, 1984, 2406, 2534, 2662, 2790, 2918, 3046, 3174, 3302,
        3430, 3558, 3664, 3792, 3872, 4160, 4240, 6112, 6160, 6470, 6608,
        6784, 6800, 6992, 7088, 7232, 7248, 42528, 43216, 43264, 43472, 43504,
        43600, 44016, 65296, 66720, 68912, 69734, 69872, 69942, 70096, 70384,
        70736, 70864, 71248, 71360, 71472, 71904, 72016, 72784, 73040, 73120,
        92768, 92864, 93008, 120782, 120792, 120802, 120812, 120822, 123200,
        123632, 125264, 130032
    >>

\* \d: the decimal digits of Unicode
Digit      == {"0", "1", "2", "3", "4", "5", "6", "7", "8", "9"}
                  \cup {Chr(DigitZeros[k] + v) : k \in 1..Len(DigitZeros), v \in 0..9}

\* the code points beyond ASCII of the characters of \w that are no digits
LetterRanges ==
    <<
        <<170, 170>>, <<178, 179>>, <<181, 181>>, <<185, 186>>, <<188, 190>>,
        <<192, 214>>, <<216, 246>>, <<248, 705>>, <<710, 721>>, <<736, 740>>,
        <<748, 748>>, <<750, 750>>, <<880, 884>>, <<886, 887>>, <<890, 893>>,
        <<895, 895>>, <<902, 902>>, <<904, 906>>, <<908, 908>>, <<910, 929>>,
        <<931, 1013>>, <<1015, 1153>>, <<1162, 1327>>, <<1329, 1366>>, <<1369,
        1369>>, <<1376, 1416>>, <<1488, 1514>>, <<1519, 1522>>, <<1568,
        1610>>, <<1646, 1647>>, <<1649, 1747>>, <<1749, 1749>>, <<1765,
        1766>>, <<1774, 1775>>, <<1786, 1788>>, <<1791, 1791>>, <<1808,
        1808>>, <<1810, 1839>>, <<1869, 1957>>, <<1969, 1969>>, <<1994,
        2026>>, <<2036, 2037>>, <<2042, 2042>>, <<2048, 2069>>, <<2074,
        2074>>, <<2084, 2084>>, <<2088, 2088>>, <<2112, 2136>>, <<2144,
        2154>>, <<2160, 2183>>, <<2185, 2190>>, <<2208, 2249>>, <<2308,
        2361>>, <<2365, 2365>>, <<2384, 2384>>, <<2392, 2401>>, <<2417,
        2432>>, <<2437, 2444>>, <<2447, 2448>>, <<2451, 2472>>, <<2474,
        2480>>, <<2482, 2482>>, <<2486, 2489>>, <<2493, 2493>>, <<2510,
        2510>>, <<2524, 2525>>, <<2527, 2529>>, <<2544, 2545>>, <<2548,
        2553>>, <<2556, 2556>>, <<2565, 2570>>, <<2575, 2576>>, <<2579,
        2600>>, <<2602, 2608>>, <<2610, 2611>>, <<2613, 2614>>, <<2616,
        2617>>, <<2649, 2652>>, <<2654, 2654>>, <<2674, 2676>>, <<2693,
        2701>>, <<2703, 2705>>, <<2707, 2728>>, <<2730, 2736>>, <<2738,
        2739>>, <<2741, 2745>>, <<2749, 2749>>, <<2768, 2768>>, <<2784,
        2785>>, <<2809, 2809>>, <<2821, 2828>>, <<2831, 2832>>, <<2835,
        2856>>, <<2858, 2864>>, <<2866, 2867>>, <<2869, 2873>>, <<2877,
        2877>>, <<2908, 2909>>, <<2911, 2913>>, <<2929, 2935>>, <<2947,
        2947>>, <<2949, 2954>>, <<2958, 2960>>, <<2962, 2965>>, <<2969,
        2970>>, <<2972, 2972>>, <<2974, 2975>>, <<2979, 2980>>, <<2984,
        2986>>, <<2990, 3001>>, <<3024, 3024>>, <<3056, 3058>>, <<3077,
        3084>>, <<3086, 3088>>, <<3090, 3112>>, <<3114, 3129>>, <<3133,
        3133>>, <<3160, 3162>>, <<3165, 3165>>, <<3168, 3169>>, <<3192,
        3198>>, <<3200, 3200>>, <<3205, 3212>>, <<3214, 3216>>, <<3218,
        3240>>, <<3242, 3251>>, <<3253, 3257>>, <<3261, 3261>>, <<3293,
        3294>>, <<3296, 3297>>, <<3313, 3314>>, <<3332, 3340>>, <<3342,
        3344>>, <<3346, 3386>>, <<3389, 3389>>, <<3406, 3406>>, <<3412,
        3414>>, <<3416, 3425>>, <<3440, 3448>>, <<3450, 3455>>, <<3461,
        3478>>, <<3482, 3505>>, <<3507, 3515>>, <<3517, 3517>>, <<3520,
        3526>>, <<3585, 3632>>, <<3634, 3635>>, <<3648, 3654>>, <<3713,
        3714>>, <<3716, 3716>>, <<3718, 3722>>, <<3724, 3747>>, <<3749,
        3749>>, <<3751, 3760>>, <<3762, 3763>>, <<3773, 3773>>, <<3776,
        3780>>, <<3782, 3782>>, <<3804, 3807>>, <<3840, 3840>>, <<3882,
        3891>>, <<3904, 3911>>, <<3913, 3948>>, <<3976, 3980>>, <<4096,
        4138>>, <<4159, 4159>>, <<4176, 4181>>, <<4186, 4189>>, <<4193,
        4193>>, <<4197, 4198>>, <<4206, 4208>>, <<4213, 4225>>, <<4238,
        4238>>, <<4256, 4293>>, <<4295, 4295>>, <<4301, 4301>>, <<4304,
        4346>>, <<4348, 4680>>, <<4682, 4685>>, <<4688, 4694>>, <<4696,
        4696>>, <<4698, 4701>>, <<4704, 4744>>, <<4746, 4749>>, <<4752,
        4784>>, <<4786, 4789>>, <<4792, 4798>>, <<4800, 4800>>, <<4802,
        4805>>, <<4808, 4822>>, <<4824, 4880>>, <<4882, 4885>>, <<4888,
        4954>>, <<4969, 4988>>, <<4992, 5007>>, <<5024, 5109>>, <<5112,
        5117>>, <<5121, 5740>>, <<5743, 5759>>, <<5761, 5786>>, <<5792,
        5866>>, <<5870, 5880>>, <<5888, 5905>>, <<5919, 5937>>, <<5952,
        5969>>, <<5984, 5996>>, <<5998, 6000>>, <<6016, 6067>>, <<6103,
        6103>>, <<6108, 6108>>, <<6128, 6137>>, <<6176, 6264>>, <<6272,
        6276>>, <<6279, 6312>>, <<6314, 6314>>, <<6320, 6389>>, <<6400,
        6430>>, <<6480, 6509>>, <<6512, 6516>>, <<6528, 6571>>, <<6576,
        6601>>, <<6618, 6618>>, <<6656, 6678>>, <<6688, 6740>>, <<6823,
        6823>>, <<6917, 6963>>, <<6981, 6988>>, <<7043, 7072>>, <<7086,
        7087>>, <<7098, 7141>>, <<7168, 7203>>, <<7245, 7247>>, <<7258,
        7293>>, <<7296, 7304>>, <<7312, 7354>>, <<7357, 7359>>, <<7401,
        7404>>, <<7406, 7411>>, <<7413, 7414>>, <<7418, 7418>>, <<7424,
        7615>>, <<7680, 7957>>, <<7960, 7965>>, <<7968, 8005>>, <<8008,
        8013>>, <<8016, 8023>>, <<8025, 8025>>, <<8027, 8027>>, <<8029,
        8029>>, <<8031, 8061>>, <<8064, 8116>>, <<8118, 8124>>, <<8126,
        8126>>, <<8130, 8132>>, <<8134, 8140>>, <<8144, 8147>>, <<8150,
        8155>>, <<8160, 8172>>, <<8178, 8180>>, <<8182, 8188>>, <<8304,
        8305>>, <<8308, 8313>>, <<8319, 8329>>, <<8336, 8348>>, <<8450,
        8450>>, <<8455, 8455>>, <<8458, 8467>>, <<8469, 8469>>, <<8473,
        8477>>, <<8484, 8484>>, <<8486, 8486>>, <<8488, 8488>>, <<8490,
        8493>>, <<8495, 8505>>, <<8508, 8511>>, <<8517, 8521>>, <<8526,
        8526>>, <<8528, 8585>>, <<9312, 9371>>, <<9450, 9471>>, <<10102,
        10131>>, <<11264, 11492>>, <<11499, 11502>>, <<11506, 11507>>,
        <<11517, 11517>>, <<11520, 11557>>, <<11559, 11559>>, <<11565,
        11565>>, <<11568, 11623>>, <<11631, 11631>>, <<11648, 11670>>,
        <<11680, 11686>>, <<11688, 11694>>, <<11696, 11702>>, <<11704,
        11710>>, <<11712, 11718>>, <<11720, 11726>>, <<11728, 11734>>,
        <<11736, 11742>>, <<11823, 11823>>, <<12293, 12295>>, <<12321,
        12329>>, <<12337, 12341>>, <<12344, 12348>>, <<12353, 12438>>,
        <<12445, 12447>>, <<12449, 12538>>, <<12540, 12543>>, <<12549,
        12591>>, <<12593, 12686>>, <<12690, 12693>>, <<12704, 12735>>,
        <<12784, 12799>>, <<12832, 12841>>, <<12872, 12879>>, <<12881,
        12895>>, <<12928, 12937>>, <<12977, 12991>>, <<13312, 19903>>,
        <<19968, 42124>>, <<42192, 42237>>, <<42240, 42508>>, <<42512,
        42527>>, <<42538, 42539>>, <<42560, 42606>>, <<42623, 42653>>,
        <<42656, 42735>>, <<42775, 42783>>, <<42786, 42888>>, <<42891,
        42954>>, <<42960, 42961>>, <<42963, 42963>>, <<42965, 42969>>,
        <<42994, 43009>>, <<43011, 43013>>, <<43015, 43018>>, <<43020,
        43042>>, <<43056, 43061>>, <<43072, 43123>>, <<43138, 43187>>,
        <<43250, 43255>>, <<43259, 43259>>, <<43261, 43262>>, <<43274,
        43301>>, <<43312, 43334>>, <<43360, 43388>>, <<43396, 43442>>,
        <<43471, 43471>>, <<43488, 43492>>, <<43494, 43503>>, <<43514,
        43518>>, <<43520, 43560>>, <<43584, 43586>>, <<43588, 43595>>,
        <<43616, 43638>>, <<43642, 43642>>, <<43646, 43695>>, <<43697,
        43697>>, <<43701, 43702>>, <<43705, 43709>>, <<43712, 43712>>,
        <<43714, 43714>>, <<43739, 43741>>, <<43744, 43754>>, <<43762,
        43764>>, <<43777, 43782>>, <<43785, 43790>>, <<43793, 43798>>,
        <<43808, 43814>>, <<43816, 43822>>, <<43824, 43866>>, <<43868,
        43881>>, <<43888, 44002>>, <<44032, 55203>>, <<55216, 55238>>,
        <<55243, 55291>>, <<63744, 64109>>, <<64112, 64217>>, <<64256,
        64262>>, <<64275, 64279>>, <<64285, 64285>>, <<64287, 64296>>,
        <<64298, 64310>>, <<64312, 64316>>, <<64318, 64318>>, <<64320,
        64321>>, <<64323, 64324>>, <<64326, 64433>>, <<64467, 64829>>,
        <<64848, 64911>>, <<64914, 64967>>, <<65008, 65019>>, <<65136,
        65140>>, <<65142, 65276>>, <<65313, 65338>>, <<65345, 65370>>,
        <<65382, 65470>>, <<65474, 65479>>, <<65482, 65487>>, <<65490,
        65495>>, <<65498, 65500>>, <<65536, 65547>>, <<65549, 65574>>,
        <<65576, 65594>>, <<65596, 65597>>, <<65599, 65613>>, <<65616,
        65629>>, <<65664, 65786>>, <<65799, 65843>>, <<65856, 65912>>,
        <<65930, 65931>>, <<66176, 66204>>, <<66208, 66256>>, <<66273,
        66299>>, <<66304, 66339>>, <<66349, 66378>>, <<66384, 66421>>,
        <<66432, 66461>>, <<66464, 66499>>, <<66504, 66511>>, <<66513,
        66517>>, <<66560, 66717>>, <<66736, 66771>>, <<66776, 66811>>,
        <<66816, 66855>>, <<66864, 66915>>, <<66928, 66938>>, <<66940,
        66954>>, <<66956, 66962>>, <<66964, 66965>>, <<66967, 66977>>,
        <<66979, 66993>>, <<66995, 67001>>, <<67003, 67004>>, <<67072,
        67382>>, <<67392, 67413>>, <<67424, 67431>>, <<67456, 67461>>,
        <<67463, 67504>>, <<67506, 67514>>, <<67584, 67589>>, <<67592,
        67592>>, <<67594, 67637>>, <<67639, 67640>>, <<67644, 67644>>,
        <<67647, 67669>>, <<67672, 67702>>, <<67705, 67742>>, <<67751,
        67759>>, <<67808, 67826>>, <<67828, 67829>>, <<67835, 67867>>,
        <<67872, 67897>>, <<67968, 68023>>, <<68028, 68047>>, <<68050,
        68096>>, <<68112, 68115>>, <<68117, 68119>>, <<68121, 68149>>,
        <<68160, 68168>>, <<68192, 68222>>, <<68224, 68255>>, <<68288,
        68295>>, <<68297, 68324>>, <<68331, 68335>>, <<68352, 68405>>,
        <<68416, 68437>>, <<68440, 68466>>, <<68472, 68497>>, <<68521,
        68527>>, <<68608, 68680>>, <<68736, 68786>>, <<68800, 68850>>,
        <<68858, 68899>>, <<69216, 69246>>, <<69248, 69289>>, <<69296,
        69297>>, <<69376, 69415>>, <<69424, 69445>>, <<69457, 69460>>,
        <<69488, 69505>>, <<69552, 69579>>, <<69600, 69622>>, <<69635,
        69687>>, <<69714, 69733>>, <<69745, 69746>>, <<69749, 69749>>,
        <<69763, 69807>>, <<69840, 69864>>, <<69891, 69926>>, <<69956,
        69956>>, <<69959, 69959>>, <<69968, 70002>>, <<70006, 70006>>,
        <<70019, 70066>>, <<70081, 70084>>, <<70106, 70106>>, <<70108,
        70108>>, <<70113, 70132>>, <<70144, 70161>>, <<70163, 70187>>,
        <<70272, 70278>>, <<70280, 70280>>, <<70282, 70285>>, <<70287,
        70301>>, <<70303, 70312>>, <<70320, 70366>>, <<70405, 70412>>,
        <<70415, 70416>>, <<70419, 70440>>, <<70442, 70448>>, <<70450,
        70451>>, <<70453, 70457>>, <<70461, 70461>>, <<70480, 70480>>,
        <<70493, 70497>>, <<70656, 70708>>, <<70727, 70730>>, <<70751,
        70753>>, <<70784, 70831>>, <<70852, 70853>>, <<70855, 70855>>,
        <<71040, 71086>>, <<71128, 71131>>, <<71168, 71215>>, <<71236,
        71236>>, <<71296, 71338>>, <<71352, 71352>>, <<71424, 71450>>,
        <<71482, 71483>>, <<71488, 71494>>, <<71680, 71723>>, <<71840,
        71903>>, <<71914, 71922>>, <<71935, 71942>>, <<71945, 71945>>,
        <<71948, 71955>>, <<71957, 71958>>, <<71960, 71983>>, <<71999,
        71999>>, <<72001, 72001>>, <<72096, 72103>>, <<72106, 72144>>,
        <<72161, 72161>>, <<72163, 72163>>, <<72192, 72192>>, <<72203,
        72242>>, <<72250, 72250>>, <<72272, 72272>>, <<72284, 72329>>,
        <<72349, 72349>>, <<72368, 72440>>, <<72704, 72712>>, <<72714,
        72750>>, <<72768, 72768>>, <<72794, 72812>>, <<72818, 72847>>,
        <<72960, 72966>>, <<72968, 72969>>, <<72971, 73008>>, <<73030,
        73030>>, <<73056, 73061>>, <<73063, 73064>>, <<73066, 73097>>,
        <<73112, 73112>>, <<73440, 73458>>, <<73648, 73648>>, <<73664,
        73684>>, <<73728, 74649>>, <<74752, 74862>>, <<74880, 75075>>,
        <<77712, 77808>>, <<77824, 78894>>, <<82944, 83526>>, <<92160,
        92728>>, <<92736, 92766>>, <<92784, 92862>>, <<92880, 92909>>,
        <<92928, 92975>>, <<92992, 92995>>, <<93019, 93025>>, <<93027,
        93047>>, <<93053, 93071>>, <<93760, 93846>>, <<93952, 94026>>,
        <<94032, 94032>>, <<94099, 94111>>, <<94176, 94177>>, <<94179,
        94179>>, <<94208, 100343>>, <<100352, 101589>>, <<101632, 101640>>,
        <<110576, 110579>>, <<110581, 110587>>, <<110589, 110590>>, <<110592,
        110882>>, <<110928, 110930>>, <<110948, 110951>>, <<110960, 111355>>,
        <<113664, 113770>>, <<113776, 113788>>, <<113792, 113800>>, <<113808,
        113817>>, <<119520, 119539>>, <<119648, 119672>>, <<119808, 119892>>,
        <<119894, 119964>>, <<119966, 119967>>, <<119970, 119970>>, <<119973,
        119974>>, <<119977, 119980>>, <<119982, 119993>>, <<119995, 119995>>,
        <<119997, 120003>>, <<120005, 120069>>, <<120071, 120074>>, <<120077,
        120084>>, <<120086, 120092>>, <<120094, 120121>>, <<120123, 120126>>,
        <<120128, 120132>>, <<120134, 120134>>, <<120138, 120144>>, <<120146,
        120485>>, <<120488, 120512>>, <<120514, 120538>>, <<120540, 120570>>,
        <<120572, 120596>>, <<120598, 120628>>, <<120630, 120654>>, <<120656,
        120686>>, <<120688, 120712>>, <<120714, 120744>>, <<120746, 120770>>,
        <<120772, 120779>>, <<122624, 122654>>, <<123136, 123180>>, <<123191,
        123197>>, <<123214, 123214>>, <<123536, 123565>>, <<123584, 123627>>,
        <<124896, 124902>>, <<124904, 124907>>, <<124909, 124910>>, <<124912,
        124926>>, <<124928, 125124>>, <<125127, 125135>>, <<125184, 125251>>,
        <<125259, 125259>>, <<126065, 126123>>, <<126125, 126127>>, <<126129,
        126132>>, <<126209, 126253>>, <<126255, 126269>>, <<126464, 126467>>,
        <<126469, 126495>>, <<126497, 126498>>, <<126500, 126500>>, <<126503,
        126503>>, <<126505, 126514>>, <<126516, 126519>>, <<126521, 126521>>,
        <<126523, 126523>>, <<126530, 126530>>, <<126535, 126535>>, <<126537,
        126537>>, <<126539, 126539>>, <<126541, 126543>>, <<126545, 126546>>,
        <<126548, 126548>>, <<126551, 126551>>, <<126553, 126553>>, <<126555,
        126555>>, <<126557, 126557>>, <<126559, 126559>>, <<126561, 126562>>,
        <<126564, 126564>>, <<126567, 126570>>, <<126572, 126578>>, <<126580,
        126583>>, <<126585, 126588>>, <<126590, 126590>>, <<126592, 126601>>,
        <<126603, 126619>>, <<126625, 126627>>, <<126629, 126633>>, <<126635,
        126651>>, <<127232, 127244>>, <<131072, 173791>>, <<173824, 177976>>,
        <<177984, 178205>>, <<178208, 183969>>, <<183984, 191456>>, <<194560,
        195101>>, <<196608, 201546>>
    >>

\* the characters of \w apart from the digits and "_"
Letter     == {"a", "b", "c", "d", "e", "f", "g", "h", "i", "j", "k", "l", "m",
               "n", "o", "p", "q", "r", "s", "t", "u", "v", "w", "x", "y", "z",
               "A", "B", "C", "D", "E", "F", "G", "H", "I", "J", "K", "L", "M",
               "N", "O", "P", "Q", "R", "S", "T", "U", "V", "W", "X", "Y", "Z"}
                  \cup Chars(LetterRanges)

\* \w, the characters between which \b finds no boundary
WordChar   == Letter \cup Digit \cup {"_"}

\* s[i..j], empty when j < i
Slice(s, i, j) == IF j < i THEN <<>> ELSE SubSeq(s, i, j)

\* p occurs in s starting at index i
HasPrefixAt(s, i, p) ==
    /\ i + Len(p) - 1 <= Len(s)
    /\ \A k \in 1..Len(p) : s[i + k - 1] = p[k]

\* index of the last character of the maximal run of characters of S that
\* starts at i; i-1 when s[i] is not in S
RECURSIVE RunEnd(_, _, _)
RunEnd(s, i, S) ==
    IF i <= Len(s) /\ s[i] \in S THEN RunEnd(s, i + 1, S) ELSE i - 1

\* Python truthiness of an optional str: None and "" are falsy
Truthy(t) == t /= None /\ t /= <<>>

\* str.strip()
Strip(s) ==
    LET a == RunEnd(s, 1, Whitespace) + 1
        b == CHOOSE j \in 0..Len(s) :
                /\ \A k \in (j + 1)..Len(s) : s[k] \in Whitespace
                /\ j > 0 => s[j] \notin Whitespace
    IN  Slice(s, a, b)

\* re.sub(r'\s+', ' ', s), scanning from index i
RECURSIVE SubWhitespace(_, _)
SubWhitespace(s, i) ==
    IF i > Len(s) THEN <<>>
    ELSE IF s[i] \in Whitespace
         THEN <<" ">> \o SubWhitespace(s, RunEnd(s, i, Whitespace) + 1)
         ELSE <<s[i]>> \o SubWhitespace(s, i + 1)

_normalize_whitespace(t) ==
    IF ~Truthy(t) THEN <<>> ELSE Strip(SubWhitespace(t, 1))

\* r'\(cid:\d+\)' matched at i: index of the last matched character, else 0
CidTag == <<"(", "c", "i", "d", ":">>
CidMatchEnd(s, i) ==
    IF HasPrefixAt(s, i, CidTag)
    THEN LET d == RunEnd(s, i + Len(CidTag), Digit)
         IN  IF d >= i + Len(CidTag) /\ d + 1 <= Len(s) /\ s[d + 1] = ")"
             THEN d + 1 ELSE 0
    ELSE 0

\* re.sub(r'\(cid:\d+\)', '', s), scanning from index i
RECURSIVE SubCid(_, _)
SubCid(s, i) ==
    IF i > Len(s) THEN <<>>
    ELSE LET e == CidMatchEnd(s, i)
         IN  IF e > 0 THEN SubCid(s, e + 1)
             ELSE <<s[i]>> \o SubCid(s, i + 1)

_remove_cid_codes(t) ==
    IF ~Truthy(t) THEN <<>> ELSE _normalize_whitespace(SubCid(t, 1))

\* r'PPAARRT[TI]+' matched at i: index of the last matched character, else 0
PartTag == <<"P", "P", "A", "A", "R", "R", "T">>
PartTokenEnd(s, i) ==
    IF HasPrefixAt(s, i, PartTag)
    THEN LET e == RunEnd(s, i + Len(PartTag), {"T", "I"})
         IN  IF e >= i + Len(PartTag) THEN e ELSE 0
    ELSE 0

\* the greedy tail (?:\s+PPAARRT[TI]+)* after a token that ends at e
RECURSIVE PartTailEnd(_, _)
PartTailEnd(s, e) ==
    LET w == RunEnd(s, e + 1, Whitespace)
        n == IF w >= e + 1 THEN PartTokenEnd(s, w + 1) ELSE 0
    IN  IF n > 0 THEN PartTailEnd(s, n) ELSE e

PartMatchEnd(s, i) ==
    LET e == PartTokenEnd(s, i) IN IF e > 0 THEN PartTailEnd(s, e) ELSE 0

\* re.sub(r'PPAARRT[TI]+(?:\s+PPAARRT[TI]+)*', '', s), scanning from index i
RECURSIVE SubPart(_, _)
SubPart(s, i) ==
    IF i > Len(s) THEN <<>>
    ELSE LET e == PartMatchEnd(s, i)
         IN  IF e > 0 THEN SubPart(s, e + 1)
             ELSE <<s[i]>> \o SubPart(s, i + 1)

\* the strings the alternation (?:I{1,3}|IV|V|VI{1,3}|IX|X) can match
Roman == { <<"I">>, <<"I", "I">>, <<"I", "I", "I">>, <<"I", "V">>, <<"V">>,
           <<"V", "I">>, <<"V", "I", "I">>, <<"V", "I", "I", "I">>,
           <<"I", "X">>, <<"X">> }

\* a roman token at i that \s+ follows: the token is everything up to the
\* first whitespace; the result is the index of the last character of the
\* whitespace run, else 0
RomanThenSpace(s, i) ==
    LET q == RunEnd(s, i, {"I", "V", "X"})
        w == RunEnd(s, q + 1, Whitespace)
    IN  IF q >= i /\ Slice(s, i, q) \in Roman /\ w >= q + 1 THEN w ELSE 0

\* the last roman token of the pattern, at i: the first alternative that
\* matches wins (I{1,3} greedy, then V, then X); index of its last
\* character, else 0
RomanLast(s, i) ==
    IF i > Len(s) THEN 0
    ELSE IF s[i] = "I" THEN Min(RunEnd(s, i, {"I"}), i + 2)
    ELSE IF s[i] \in {"V", "X"} THEN i
    ELSE 0

\* \b before index i, for s[i] a word character
WordStart(s, i) == i = 1 \/ s[i - 1] \notin WordChar

RomanMatchEnd(s, i) ==
    IF i <= Len(s) /\ WordStart(s, i)
    THEN LET a == RomanThenSpace(s, i)
             b == IF a > 0 THEN RomanThenSpace(s, a + 1) ELSE 0
         IN  IF b > 0 THEN RomanLast(s, b + 1) ELSE 0
    ELSE 0

\* re.sub of the three-roman-numeral pattern by '', scanning from index i
RECURSIVE SubRoman(_, _)
SubRoman(s, i) ==
    IF i > Len(s) THEN <<>>
    ELSE LET e == RomanMatchEnd(s, i)
         IN  IF e > 0 THEN SubRoman(s, e + 1)
             ELSE <<s[i]>> \o SubRoman(s, i + 1)

\* _remove_page_headers without its closing _normalize_whitespace
RemovePageHeadersUnnormalized(t) ==
    IF ~Truthy(t) THEN <<>> ELSE SubRoman(SubPart(t, 1), 1)

_remove_page_headers(t) ==
    IF ~Truthy(t) THEN <<>>
    ELSE _normalize_whitespace(SubRoman(SubPart(t, 1), 1))

\* _clean_text with the two removals in the other order
CleanTextHeadersFirst(t) == _remove_cid_codes(_remove_page_headers(t))

_clean_text(t) == _remove_page_headers(_remove_cid_codes(t))

\* _clean_cell_text: str(cell) with '\n' replaced by ' ', then _clean_text
ReplaceNewline(s) == [k \in 1..Len(s) |-> IF s[k] = "\n" THEN " " ELSE s[k]]

\* _clean_cell_text without the `cell is None` test: str(None) is 'None'
CleanCellTextUnguarded(cell) ==
    _clean_text(ReplaceNewline(IF cell = None THEN <<"N", "o", "n", "e">> ELSE cell))

_clean_cell_text(cell) ==
    IF cell = None THEN <<>> ELSE _clean_text(ReplaceNewline(cell))

(***************************************************************************)
(* TableStatistics and PDFExtractor._calculate_table_statistics.  A float  *)
(* is the exact rational <<numerator, denominator>> of the quotient.       *)
(***************************************************************************)
MIN_TABLE_ROWS      == 4
MIN_CONTENT_DENSITY == <<2, 5>>
MIN_AVG_CELL_LENGTH == 15
MIN_ROW_FILL_RATE   == <<2, 5>>

Zero == <<0, 1>>                                   \* 0.0
RatLess(p, q) == p[1] * q[2] < q[1] * p[2]         \* p < q, denominators > 0
RatEq(p, q)   == p[1] * q[2] = q[1] * p[2]         \* p = q, denominators > 0

\* a / b
Div(a, b) == IF b = 0 THEN ZeroDivisionError ELSE <<a, b>>

\* q / n for a quotient q
DivBy(q, n) ==
    IF q = ZeroDivisionError \/ n = 0 THEN ZeroDivisionError
    ELSE <<q[1], q[2] * n>>

content_density(st) ==
    IF st.total_cells > 0 THEN Div(st.non_empty_cells, st.total_cells) ELSE Zero

\* avg_cell_length without the non_empty_cells > 0 test
AvgCellLengthUnguarded(st) == Div(st.total_text_length, st.non_empty_cells)

avg_cell_length(st) ==
    IF st.non_empty_cells > 0
    THEN Div(st.total_text_length, st.non_empty_cells) ELSE Zero

avg_row_fill_rate(st, columns) ==
    IF st.cells_per_row = <<>> \/ columns = 0 THEN Zero
    ELSE LET avg_cells == Div(SumSeq(st.cells_per_row), Len(st.cells_per_row))
         IN  DivBy(avg_cells, columns)

\* `if cell and str(cell).strip()`
CellNonEmpty(cell) == cell /= None /\ cell /= <<>> /\ Strip(cell) /= <<>>

\* len(str(cell)): the length of the cell before trimming
CellLengthUntrimmed(cell) == Len(cell)

\* len(str(cell).strip())
CellLength(cell) == Len(Strip(cell))

\* `if row`
RowTruthy(row) == row /= NoneRow /\ row /= <<>>

NewStatistics ==
    [non_empty_cells |-> 0, total_cells |-> 0, total_text_length |-> 0,
     non_empty_rows |-> 0, cells_per_row |-> <<>>]

\* the loop over the cells of a row, from cell i: acc.st are the counters,
\* acc.row_non_empty the row's own count
RECURSIVE ScanRow(_, _, _)
ScanRow(row, i, acc) ==
    IF i > Len(row) THEN acc
    ELSE LET counted == [acc.st EXCEPT !.total_cells = @ + 1]
         IN  IF CellNonEmpty(row[i])
             THEN ScanRow(row, i + 1,
                    [st |-> [counted EXCEPT
                                !.non_empty_cells = @ + 1,
                                !.total_text_length = @ + CellLength(row[i])],
                     row_non_empty |-> acc.row_non_empty + 1])
             ELSE ScanRow(row, i + 1, [acc EXCEPT !.st = counted])

\* the loop body for one row, recording every scanned row as non-empty
AddRowAlways(st, row) ==
    IF RowTruthy(row)
    THEN LET acc == ScanRow(row, 1, [st |-> st, row_non_empty |-> 0])
         IN  [acc.st EXCEPT !.non_empty_rows = @ + 1,
                            !.cells_per_row = Append(@, acc.row_non_empty)]
    ELSE st

\* the loop body for one row
AddRow(st, row) ==
    IF RowTruthy(row)
    THEN LET acc == ScanRow(row, 1, [st |-> st, row_non_empty |-> 0])
         IN  IF acc.row_non_empty > 0    \* row_has_content
             THEN [acc.st EXCEPT !.non_empty_rows = @ + 1,
                                 !.cells_per_row = Append(@, acc.row_non_empty)]
             ELSE acc.st
    ELSE st

RECURSIVE ScanTable(_, _, _)
ScanTable(t, i, st) ==
    IF i > Len(t) THEN st ELSE ScanTable(t, i + 1, AddRow(st, t[i]))

_calculate_table_statistics(t) ==
    IF t = NoneTable THEN TypeError    \* `for row in None`
    ELSE ScanTable(t, 1, NewStatistics)

(***************************************************************************)
(* PDFExtractor._is_valid_table                                            *)
(***************************************************************************)
\* the values of `str(cell).strip() for cell in table[0] if cell`
FirstRowValues(row) ==
    {Strip(row[k]) : k \in {j \in 1..Len(row) : row[j] /= None /\ row[j] /= <<>>}}

\* the binary exponent of 2n/5: the k with 2^k <= 2n/5 < 2^(k+1)
RECURSIVE FloatExponentFrom(_, _)
FloatExponentFrom(n, k) ==
    IF 5 * (2 ^ (k + 1)) <= 2 * n THEN FloatExponentFrom(n, k + 1) ELSE k

FloatExponent(n) ==
    IF n = 1 THEN 0 - 2 ELSE IF n = 2 THEN 0 - 1 ELSE FloatExponentFrom(n, 0)

\* (2n/5)/n, computed in binary floating point (53-bit significands, round
\* to nearest even), is below the float 0.4.  The first division rounds
\* 2n/5 to a multiple of u = 2^(k-52): with r the remainder of n*2^(53-k)
\* by 5 it rounds down by r*u/5 for r = 1, 2, up for r = 3, 4, and is
\* exact for r = 0.  The float 0.4 lies 0.4 ulp above 2/5, so the second
\* division gives a float below it exactly when the first rounded down.
\* 2^j mod 5 has period 4.
RoundsBelow(n) ==
    ((n % 5) * (2 ^ ((53 - FloatExponent(n)) % 4))) % 5 \in {1, 2}

\* stats.avg_row_fill_rate(columns) < MIN_ROW_FILL_RATE: the quotient of
\* two roundings is below 0.4 when the exact value is, and also when the
\* exact value is 2/5 and the roundings fall below it
FillRateTooLow(st, columns) ==
    LET rate == avg_row_fill_rate(st, columns)
    IN  \/ RatLess(rate, MIN_ROW_FILL_RATE)
        \/ /\ RatEq(rate, MIN_ROW_FILL_RATE)
           /\ RoundsBelow(columns)

\* _is_valid_table without the test of a first row of exactly 1 column
IsValidTableAnyWidth(t) ==
    IF t = NoneTable \/ t = <<>> \/ Len(t) < 2 THEN FALSE
    ELSE IF RowTruthy(t[1]) /\ Cardinality(FirstRowValues(t[1])) = 1 THEN FALSE
    ELSE LET st == _calculate_table_statistics(t)
             columns == IF RowTruthy(t[1]) THEN Len(t[1]) ELSE 0
         IN  IF RatLess(content_density(st), MIN_CONTENT_DENSITY) THEN FALSE
             ELSE IF st.non_empty_rows < MIN_TABLE_ROWS THEN FALSE
             ELSE IF RatLess(avg_cell_length(st), <<MIN_AVG_CELL_LENGTH, 1>>) THEN FALSE
             ELSE IF FillRateTooLow(st, columns) THEN FALSE
             ELSE TRUE

\* _is_valid_table with the comparison of avg_cell_length reversed
IsValidTableLongCellsRejected(t) ==
    IF t = NoneTable \/ t = <<>> \/ Len(t) < 2 THEN FALSE
    ELSE IF RowTruthy(t[1]) /\ Len(t[1]) = 1 THEN FALSE
    ELSE IF RowTruthy(t[1]) /\ Cardinality(FirstRowValues(t[1])) = 1 THEN FALSE
    ELSE LET st == _calculate_table_statistics(t)
             columns == IF RowTruthy(t[1]) THEN Len(t[1]) ELSE 0
         IN  IF RatLess(content_density(st), MIN_CONTENT_DENSITY) THEN FALSE
             ELSE IF st.non_empty_rows < MIN_TABLE_ROWS THEN FALSE
             ELSE IF RatLess(<<MIN_AVG_CELL_LENGTH, 1>>, avg_cell_length(st)) THEN FALSE
             ELSE IF FillRateTooLow(st, columns) THEN FALSE
             ELSE TRUE

_is_valid_table(t) ==
    IF t = NoneTable \/ t = <<>> \/ Len(t) < 2 THEN FALSE
    ELSE IF RowTruthy(t[1]) /\ Len(t[1]) = 1 THEN FALSE
    ELSE IF RowTruthy(t[1]) /\ Cardinality(FirstRowValues(t[1])) = 1 THEN FALSE
    ELSE LET st == _calculate_table_statistics(t)
             columns == IF RowTruthy(t[1]) THEN Len(t[1]) ELSE 0
         IN  IF RatLess(content_density(st), MIN_CONTENT_DENSITY) THEN FALSE
             ELSE IF st.non_empty_rows < MIN_TABLE_ROWS THEN FALSE
             ELSE IF RatLess(avg_cell_length(st), <<MIN_AVG_CELL_LENGTH, 1>>) THEN FALSE
             ELSE IF FillRateTooLow(st, columns) THEN FALSE
             ELSE TRUE

(***************************************************************************)
(* PDFExtractor._format_table_as_markdown                                  *)
(***************************************************************************)
\* sep.join(parts)
RECURSIVE Join(_, _)
Join(parts, sep) ==
    IF parts = <<>> THEN <<>>
    ELSE IF Len(parts) = 1 THEN parts[1]
    ELSE parts[1] \o sep \o Join(Tail(parts), sep)

\* the rows of cleaned cells from row i, rows of empty cells kept
RECURSIVE CleanedTableKeepEmpty(_, _)
CleanedTableKeepEmpty(t, i) ==
    IF i > Len(t) THEN <<>>
    ELSE IF RowTruthy(t[i])
         THEN << [k \in 1..Len(t[i]) |-> _clean_cell_text(t[i][k])] >>
              \o CleanedTableKeepEmpty(t, i + 1)
         ELSE CleanedTableKeepEmpty(t, i + 1)

\* the rows of cleaned cells that keep a non-empty cell, from row i
RECURSIVE CleanedTable(_, _)
CleanedTable(t, i) ==
    IF i > Len(t) THEN <<>>
    ELSE IF RowTruthy(t[i])
         THEN LET cleaned_row == [k \in 1..Len(t[i]) |-> _clean_cell_text(t[i][k])]
              IN  IF \E k \in 1..Len(cleaned_row) : cleaned_row[k] /= <<>>
                  THEN <<cleaned_row>> \o CleanedTable(t, i + 1)
                  ELSE CleanedTable(t, i + 1)
         ELSE CleanedTable(t, i + 1)

Bar == <<" ", "|", " ">>                           \* " | "
\* f"| {' | '.join(cells)} |"
TableLine(cells) == <<"|", " ">> \o Join(cells, Bar) \o <<" ", "|">>

_format_table_as_markdown(t) ==
    IF t = NoneTable \/ t = <<>> THEN <<>>
    ELSE LET cleaned_table == CleanedTable(t, 1)
         IN  IF cleaned_table = <<>> THEN <<>>
             ELSE LET header == TableLine(cleaned_table[1])
                      separator ==
                          TableLine([k \in 1..Len(cleaned_table[1]) |-> <<"-", "-", "-">>])
                      rows == [k \in 1..(Len(cleaned_table) - 1) |->
                                  TableLine(cleaned_table[k + 1])]
                  IN  Join(<<header, separator>> \o rows, <<"\n">>)

(***************************************************************************)
(* Text cleaning as a state machine: a text is drawn from the bounded set  *)
(* of texts, _clean_text is called on it, and called again on its result.  *)
(***************************************************************************)
\* the pieces the texts of the model are made of
Tokens == { <<"(", "c", "i", "d", ":">>, <<"1", ")">>, <<" ">>, <<"\n">>,
            <<"a">>, <<"I", " ", "I", " ">>, <<"I", "V">>,
            <<"P", "P", "A", "A", "R", "R", "T", "T">>,
            <<"P", "P", "A", "A">>, <<"R", "R", "T", "T">> }

\* the texts made of at most n tokens
RECURSIVE Texts(_)
Texts(n) ==
    IF n = 0 THEN {<<>>}
    ELSE LET T == Texts(n - 1) IN T \cup {t \o k : t \in T, k \in Tokens}

InitClean ==
    /\ op = "text"
    /\ text \in Texts(MaxTokens) \cup {None}
    /\ cleaned = <<>>
    /\ total_pages = 0 /\ page_range = NoRange /\ indices = Idle
    /\ table = Idle /\ stats = Idle /\ num_columns = 0 /\ ret = Idle
    /\ NoExtraction /\ NoCli

\* text = self._clean_text(text), on the input
CleanText ==
    /\ op = "text"
    /\ cleaned' = <<_clean_text(text)>>
    /\ op' = "_clean_text"
    /\ UNCHANGED <<cliVars, retryVars, extractVars, text, total_pages, page_range, indices, table, stats, num_columns, ret>>

\* _clean_text called on the result of the previous call
CleanAgain ==
    /\ op = "_clean_text"
    /\ Len(cleaned) = 1
    /\ cleaned' = Append(cleaned, _clean_text(cleaned[1]))
    /\ op' = "_clean_text"
    /\ UNCHANGED <<cliVars, retryVars, extractVars, text, total_pages, page_range, indices, table, stats, num_columns, ret>>

\* _clean_cell_text called on the input as a table cell
CleanCell ==
    /\ op = "text"
    /\ cleaned' = <<_clean_cell_text(text)>>
    /\ op' = "_clean_cell_text"
    /\ UNCHANGED <<cliVars, retryVars, extractVars, text, total_pages, page_range, indices, table, stats, num_columns, ret>>

NextClean == CleanText \/ CleanAgain \/ CleanCell

SpecClean == InitClean /\ [][NextClean]_vars

(***************************************************************************)
(* Properties of text cleaning.                                            *)
(***************************************************************************)
\* s holds a glyph-identifier placeholder '(cid:' digits ')'
ContainsCid(s) == \E i \in 1..Len(s) : CidMatchEnd(s, i) > 0

\* no leading or trailing whitespace, no newline or tab, no two adjacent
\* whitespace characters
WhitespaceNormal(s) ==
    /\ s /= <<>> => s[1] \notin Whitespace /\ s[Len(s)] \notin Whitespace
    /\ \A k \in 1..Len(s) : s[k] \notin {"\n", "\t"}
    /\ \A k \in 1..(Len(s) - 1) : ~(s[k] \in Whitespace /\ s[k + 1] \in Whitespace)

\* C4: _clean_text is idempotent: calling it on its own result returns that
\* result unchanged.
C4_CleanIdempotent ==
    (op = "_clean_text" /\ Len(cleaned) = 2) => cleaned[2] = cleaned[1]

\* C5: the result of _clean_text holds no glyph-identifier placeholder.
C5_NoCidAfterClean ==
    (op = "_clean_text" /\ Len(cleaned) >= 1) => ~ContainsCid(cleaned[1])

\* C6: every result of _clean_text is whitespace-normal: no leading or
\* trailing whitespace, no newline or tab, no two adjacent whitespace
\* characters.
C6_CleanWhitespaceNormal ==
    op = "_clean_text" => \A k \in 1..Len(cleaned) : WhitespaceNormal(cleaned[k])

\* C6 witness: a text with a two-character whitespace run (a space and a
\* newline) between two words was cleaned, and the run survives as one space.
C6_Witness ==
    /\ op = "_clean_text"
    /\ text = <<"a", " ", "\n", "a">>
    /\ cleaned = << <<"a", " ", "a">> >>

(***************************************************************************)
(* Page-range resolution as a state machine: a page count and an optional  *)
(* range are drawn, and _get_page_indices is called on them.               *)
(***************************************************************************)
\* the ranges of the model: any pair of integers around the page counts
Ranges == {NoRange} \cup ((-2..(MaxPages + 2)) \X (-2..(MaxPages + 2)))

\* the calls the specification and the tests give as examples
ExampleCalls == { <<50, NoRange>>, <<50, <<66, 100>> >>, <<200, <<66, 100>> >>,
                  <<50, <<1, 99999>> >>, <<200, <<66, 66>> >> }

InitRange ==
    /\ op = "range"
    /\ \E call \in ((0..MaxPages) \X Ranges) \cup ExampleCalls :
            total_pages = call[1] /\ page_range = call[2]
    /\ indices = Idle
    /\ text = Idle /\ cleaned = Idle /\ table = Idle /\ stats = Idle
    /\ num_columns = 0 /\ ret = Idle
    /\ NoExtraction /\ NoCli

\* start_idx, end_idx = self._get_page_indices(total_pages, page_range)
GetPageIndices ==
    /\ op = "range"
    /\ indices' = _get_page_indices(total_pages, page_range)
    /\ op' = "_get_page_indices"
    /\ UNCHANGED <<cliVars, retryVars, extractVars, total_pages, page_range, text, cleaned, table, stats, num_columns, ret>>

NextRange == GetPageIndices

SpecRange == InitRange /\ [][NextRange]_vars

\* C1: _get_page_indices returns (0, total_pages) for an absent range and
\* (max(0, start-1), min(total_pages, end)) for a range (start, end), for
\* every pair of integers (the operator has no raising branch); the
\* examples of the specification resolve as it states.
C1_PageIndicesRule ==
    op = "_get_page_indices" =>
        /\ page_range = NoRange => indices = <<0, total_pages>>
        /\ page_range /= NoRange =>
            /\ indices[1] >= 0 /\ indices[1] >= page_range[1] - 1
            /\ indices[1] \in {0, page_range[1] - 1}
            /\ indices[2] <= total_pages /\ indices[2] <= page_range[2]
            /\ indices[2] \in {total_pages, page_range[2]}
        /\ (total_pages = 50 /\ page_range = NoRange) => indices = <<0, 50>>
        /\ (total_pages = 200 /\ page_range = <<66, 100>>) => indices = <<65, 100>>
        /\ (total_pages = 50 /\ page_range = <<1, 99999>>) => indices = <<0, 50>>

\* C1 witness: the call resolve(200, (66, 100)) returned (65, 100).
C1_Witness ==
    /\ op = "_get_page_indices"
    /\ total_pages = 200 /\ page_range = <<66, 100>>
    /\ indices = <<65, 100>>

\* C2: for a range with start >= 1 and end >= start, both returned indices
\* lie in [0, total_pages]; resolve(50, (66, 100)) is (50, 50).
C2_IndicesClamped ==
    (/\ op = "_get_page_indices"
     /\ page_range /= NoRange
     /\ page_range[1] >= 1 /\ page_range[2] >= page_range[1]) =>
        /\ indices[1] \in 0..total_pages
        /\ indices[2] \in 0..total_pages
        /\ (total_pages = 50 /\ page_range = <<66, 100>>) => indices = <<50, 50>>

(***************************************************************************)
(* The table functions as a state machine: a grid (or, for the text        *)
(* functions, a degenerate text) is drawn and one of the functions is      *)
(* called on it; the accessors are called on the statistics returned.      *)
(***************************************************************************)
\* the cells of the model: absent, empty, whitespace-only, padded text
CellValues == {None, <<>>, <<" ">>, <<" ", "a", "b">>}

\* the rows of k cells; the absent row counts as a row of no cells
RowsOf(k) == IF k = 0 THEN {NoneRow, <<>>} ELSE [1..k -> CellValues]

RowCells(row) == IF row = NoneRow THEN 0 ELSE Len(row)

\* the grids of at most r rows and c cells
RECURSIVE Grids(_, _)
Grids(r, c) ==
    IF r = 0 THEN {<<>>}
    ELSE {<<>>} \cup
         UNION { {<<row>> \o g : row \in RowsOf(k), g \in Grids(r - 1, c - k)} :
                 k \in 0..c }

\* the texts the text functions degenerate on, and one they do not
DegenerateTexts == {None, <<>>, <<" ">>, <<"a", "\n">>}

InitTable ==
    /\ \/ op = "table" /\ table \in Grids(MaxRows, MaxCells) \cup {NoneTable}
          /\ text = Idle
       \/ op = "text" /\ text \in DegenerateTexts /\ table = Idle
    /\ stats = Idle /\ num_columns = 0 /\ ret = Idle /\ cleaned = Idle
    /\ total_pages = 0 /\ page_range = NoRange /\ indices = Idle
    /\ NoExtraction /\ NoCli

\* stats = self._calculate_table_statistics(table)
CalculateTableStatistics ==
    /\ op = "table"
    /\ stats' = _calculate_table_statistics(table)
    /\ op' = "_calculate_table_statistics"
    /\ UNCHANGED <<cliVars, retryVars, extractVars, total_pages, page_range, indices, text, cleaned, table,
                   num_columns, ret>>

\* self._is_valid_table(table)
IsValidTable ==
    /\ op = "table"
    /\ ret' = _is_valid_table(table)
    /\ op' = "_is_valid_table"
    /\ UNCHANGED <<cliVars, retryVars, extractVars, total_pages, page_range, indices, text, cleaned, table,
                   stats, num_columns>>

\* self._format_table_as_markdown(table)
FormatTableAsMarkdown ==
    /\ op = "table"
    /\ ret' = _format_table_as_markdown(table)
    /\ op' = "_format_table_as_markdown"
    /\ UNCHANGED <<cliVars, retryVars, extractVars, total_pages, page_range, indices, text, cleaned, table,
                   stats, num_columns>>

\* stats.content_density
ContentDensity ==
    /\ op = "_calculate_table_statistics" /\ stats /= TypeError
    /\ ret' = content_density(stats)
    /\ op' = "content_density"
    /\ UNCHANGED <<cliVars, retryVars, extractVars, total_pages, page_range, indices, text, cleaned, table,
                   stats, num_columns>>

\* stats.avg_cell_length
AvgCellLength ==
    /\ op = "_calculate_table_statistics" /\ stats /= TypeError
    /\ ret' = avg_cell_length(stats)
    /\ op' = "avg_cell_length"
    /\ UNCHANGED <<cliVars, retryVars, extractVars, total_pages, page_range, indices, text, cleaned, table,
                   stats, num_columns>>

\* stats.avg_row_fill_rate(num_columns), for no columns and for the length
\* of any row of the grid
AvgRowFillRate ==
    /\ op = "_calculate_table_statistics" /\ stats /= TypeError
    /\ \E n \in {0} \cup {RowCells(table[k]) : k \in 1..Len(table)} :
          /\ num_columns' = n
          /\ ret' = avg_row_fill_rate(stats, n)
    /\ op' = "avg_row_fill_rate"
    /\ UNCHANGED <<cliVars, retryVars, extractVars, total_pages, page_range, indices, text, cleaned, table, stats>>

NextTable ==
    \/ CalculateTableStatistics
    \/ IsValidTable
    \/ FormatTableAsMarkdown
    \/ ContentDensity
    \/ AvgCellLength
    \/ AvgRowFillRate
    \/ CleanText
    \/ CleanCell

SpecTable == InitTable /\ [][NextTable]_vars

(***************************************************************************)
(* Properties of the table functions.                                      *)
(***************************************************************************)
\* the cell is present and holds a character that is not whitespace
HasContent(cell) ==
    cell /= None /\ \E k \in 1..Len(cell) : cell[k] \notin Whitespace

\* the distance from the first to the last non-whitespace character
TrimmedLength(cell) ==
    LET solid == {k \in 1..Len(cell) : cell[k] \notin Whitespace}
        first == CHOOSE k \in solid : \A j \in solid : k <= j
        last  == CHOOSE k \in solid : \A j \in solid : k >= j
    IN  last - first + 1

\* positions <<r, k>> of the cells of the grid, and of those with content
CellPositions(t) ==
    UNION { {<<r, k>> : k \in 1..Len(t[r])} :
            r \in {q \in 1..Len(t) : t[q] /= NoneRow} }
ContentPositions(t) == {p \in CellPositions(t) : HasContent(t[p[1]][p[2]])}

\* indices of the rows that hold a cell with content, in row order
ContentRows(t) ==
    SelectSeq([r \in 1..Len(t) |-> r],
              LAMBDA r : \E p \in ContentPositions(t) : p[1] = r)

RECURSIVE TotalTrimmedLength(_, _)
TotalTrimmedLength(t, P) ==
    IF P = {} THEN 0
    ELSE LET p == CHOOSE q \in P : TRUE
         IN  TrimmedLength(t[p[1]][p[2]]) + TotalTrimmedLength(t, P \ {p})

\* C7: the table and text functions return their degenerate value on
\* malformed input and raise nothing: _clean_text(None) = _clean_text('') =
\* '' and _clean_cell_text(None) = ''; _calculate_table_statistics returns
\* counts for every grid, with absent rows and cells; _is_valid_table is
\* false for an empty or absent grid and when the first row is absent;
\* _format_table_as_markdown is '' for an empty or absent grid.
C7_TotalOnMalformedInput ==
    /\ (op = "_clean_text" /\ text \in {None, <<>>}) => cleaned = << <<>> >>
    /\ (op = "_clean_cell_text" /\ text = None) => cleaned = << <<>> >>
    /\ (op = "_calculate_table_statistics" /\ table /= NoneTable) =>
            /\ stats /= TypeError
            /\ stats.total_cells >= 0 /\ stats.non_empty_cells >= 0
            /\ stats.non_empty_rows >= 0 /\ stats.total_text_length >= 0
            /\ (table = <<>> \/ \A r \in 1..Len(table) : table[r] \in {NoneRow, <<>>})
                   => stats = NewStatistics
    /\ (op = "_is_valid_table" /\ table \in {NoneTable, <<>>}) => ret = FALSE
    /\ (op = "_is_valid_table" /\ table /= NoneTable /\ table /= <<>>
            /\ table[1] = NoneRow) => ret = FALSE
    /\ (op = "_format_table_as_markdown" /\ table \in {NoneTable, <<>>}) => ret = <<>>

\* C7 witness: _is_valid_table was called on a grid of two rows whose first
\* row is absent and whose second row holds text, and returned false.
C7_Witness ==
    /\ op = "_is_valid_table"
    /\ table = <<NoneRow, << <<" ", "a", "b">> >> >>
    /\ ret = FALSE

\* C8: the statistics of every grid satisfy non_empty_cells <= total_cells
\* and non_empty_rows <= number of rows; cells_per_row has one entry per row
\* with a non-empty cell, in row order, each at least 1 and at most the
\* length of its row, and the entries sum to non_empty_cells.
C8_StatisticsInvariant ==
    (op = "_calculate_table_statistics" /\ table /= NoneTable) =>
        LET rows == ContentRows(table)
        IN  /\ stats.non_empty_cells <= stats.total_cells
            /\ stats.non_empty_rows <= Len(table)
            /\ Len(stats.cells_per_row) = stats.non_empty_rows
            /\ Len(stats.cells_per_row) = Len(rows)
            /\ \A j \in 1..Len(stats.cells_per_row) :
                  /\ stats.cells_per_row[j] >= 1
                  /\ j <= Len(rows) => stats.cells_per_row[j] <= Len(table[rows[j]])
            /\ SumSeq(stats.cells_per_row) = stats.non_empty_cells

\* C8 witness: statistics of a grid whose first row has two cells without
\* content and whose second row has one cell with content.
C8_Witness ==
    /\ op = "_calculate_table_statistics"
    /\ table = << <<None, <<" ">> >>, << <<" ", "a", "b">> >> >>
    /\ stats.cells_per_row = <<1>>
    /\ stats.non_empty_rows = 1

\* C9: total_cells counts every cell; a cell adds 1 to non_empty_cells and
\* its trimmed length to total_text_length exactly when it has content
\* (absent, empty and whitespace-only cells add nothing); a row adds 1 to
\* non_empty_rows and its number of non-empty cells to cells_per_row
\* exactly when one of its cells has content.
C9_StatisticsCounts ==
    (op = "_calculate_table_statistics" /\ table /= NoneTable) =>
        LET rows == ContentRows(table)
            content == ContentPositions(table)
        IN  /\ stats.total_cells = Cardinality(CellPositions(table))
            /\ stats.non_empty_cells = Cardinality(content)
            /\ stats.total_text_length = TotalTrimmedLength(table, content)
            /\ stats.non_empty_rows = Len(rows)
            /\ stats.cells_per_row =
                 [j \in 1..Len(rows) |->
                     Cardinality({p \in content : p[1] = rows[j]})]

\* C9 witness: statistics of a grid holding a padded text, a
\* whitespace-only cell and an absent cell: three cells, one of them
\* non-empty, of trimmed length 2.
C9_Witness ==
    /\ op = "_calculate_table_statistics"
    /\ table = << << <<" ", "a", "b">>, <<" ">> >>, <<None>> >>
    /\ stats.total_cells = 3
    /\ stats.non_empty_cells = 1
    /\ stats.total_text_length = 2

\* C10: the accessors never divide by zero: content_density is
\* non_empty_cells/total_cells, and 0 when total_cells = 0; avg_cell_length
\* is total_text_length/non_empty_cells, and 0 when non_empty_cells = 0;
\* avg_row_fill_rate(num_columns) is
\* (sum(cells_per_row)/len(cells_per_row))/num_columns, and 0 when
\* num_columns = 0 or cells_per_row is empty.
C10_AccessorsTotal ==
    /\ op = "content_density" =>
          /\ ret /= ZeroDivisionError
          /\ stats.total_cells = 0 => ret = Zero
          /\ stats.total_cells > 0 =>
                ret[1] * stats.total_cells = stats.non_empty_cells * ret[2]
    /\ op = "avg_cell_length" =>
          /\ ret /= ZeroDivisionError
          /\ stats.non_empty_cells = 0 => ret = Zero
          /\ stats.non_empty_cells > 0 =>
                ret[1] * stats.non_empty_cells = stats.total_text_length * ret[2]
    /\ op = "avg_row_fill_rate" =>
          /\ ret /= ZeroDivisionError
          /\ (num_columns = 0 \/ stats.cells_per_row = <<>>) => ret = Zero
          /\ (num_columns /= 0 /\ stats.cells_per_row /= <<>>) =>
                ret[1] * (Len(stats.cells_per_row) * num_columns)
                    = SumSeq(stats.cells_per_row) * ret[2]

\* C10 witness: avg_row_fill_rate(0) was called on statistics with a
\* non-empty cells_per_row and returned 0.
C10_Witness ==
    /\ op = "avg_row_fill_rate"
    /\ num_columns = 0
    /\ stats.cells_per_row /= <<>>
    /\ ret = Zero

(***************************************************************************)
(* The extraction loops extract_with_pymupdf and extract_with_pdfplumber.  *)
(* A page is what the PDF library returns for it: its raw text, its        *)
(* candidate tables and its number of images.  A page block                *)
(* f"## Page {page_num}\n\n..." is the record of its page number and its   *)
(* parts; the returned string joins the blocks with "\n\n---\n\n", and is  *)
(* empty exactly when there is no block.                                   *)
(***************************************************************************)
LongCell  == <<"a", "b", "c", "d", "e", "f", "g", "h", "i", "j", "k", "l", "m",
               "n", "o", "p", "q", "r", "s", "t">>
OtherCell == <<"A", "b", "c", "d", "e", "f", "g", "h", "i", "j", "k", "l", "m",
               "n", "o", "p", "q", "r", "s", "t">>
\* a grid of 5 rows and 2 columns of 20-character cells
DenseTable == [r \in 1..5 |-> <<LongCell, OtherCell>>]
\* a grid of 5 rows and 5 columns, only its diagonal filled with one character
SparseTable == [r \in 1..5 |-> [c \in 1..5 |-> IF r = c THEN <<"x">> ELSE None]]

\* the pages of the model
BlankPage  == [text |-> <<>>, tables |-> <<>>, images |-> 0]
TextPage   == [text |-> <<"a", " ", "(", "c", "i", "d", ":", "1", ")", "\n">>,
               tables |-> <<>>, images |-> 0]
GlyphPage  == [text |-> <<"(", "c", "i", "d", ":", "1", ")">>,
               tables |-> <<>>, images |-> 0]
FigurePage == [text |-> <<" ", "\n">>, tables |-> <<>>, images |-> 2]
TablePage  == [text |-> <<>>, tables |-> <<SparseTable, DenseTable>>, images |-> 0]
Pages == {BlankPage, TextPage, GlyphPage, FigurePage, TablePage}

\* the documents of at most n pages
RECURSIVE Docs(_)
Docs(n) ==
    IF n = 0 THEN {<<>>}
    ELSE LET D == Docs(n - 1) IN D \cup {Append(d, p) : d \in D, p \in Pages}

\* extract_with_pymupdf, loop body: a block for every page, blank or not
PymupdfBlocksUnfiltered(page, page_num) ==
    << [page_num |-> page_num,
        parts |-> << [kind |-> "text", value |-> page.text] >>] >>

\* extract_with_pymupdf, loop body: the blocks appended for one page
PymupdfBlocks(page, page_num) ==
    IF Strip(page.text) /= <<>>
    THEN << [page_num |-> page_num,
             parts |-> << [kind |-> "text", value |-> page.text] >>] >>
    ELSE <<>>

\* valid_tables without the call of _is_valid_table
ValidTablesUnchecked(tables) ==
    SelectSeq(tables, LAMBDA t : t /= NoneTable /\ t /= <<>>)

\* valid_tables: the candidates that are truthy and valid, in order
ValidTables(tables) ==
    SelectSeq(tables, LAMBDA t : t /= NoneTable /\ t /= <<>> /\ _is_valid_table(t))

\* the parts appended to page_content for the text of the page
TextParts(page) ==
    IF Truthy(page.text) /\ Strip(page.text) /= <<>>
    THEN LET t == _clean_text(page.text)
         IN  IF Strip(t) /= <<>> THEN << [kind |-> "text", value |-> t] >> ELSE <<>>
    ELSE <<>>

\* the parts appended for valid_tables from table k on: label, table, ""
RECURSIVE TableParts(_, _)
TableParts(valid, k) ==
    IF k > Len(valid) THEN <<>>
    ELSE << [kind |-> "table_label", value |-> k],
            [kind |-> "table", value |-> _format_table_as_markdown(valid[k])],
            [kind |-> "empty_line", value |-> <<>>] >> \o TableParts(valid, k + 1)

\* the parts appended for the tables of the page
TablesParts(page, with_tables) ==
    IF with_tables /\ page.tables /= <<>> /\ ValidTables(page.tables) /= <<>>
    THEN << [kind |-> "tables_heading", value |-> <<>>] >>
         \o TableParts(ValidTables(page.tables), 1)
    ELSE <<>>

\* the part appended for the images of the page
ImageParts(page) ==
    IF page.images > 0
    THEN << [kind |-> "image_note", value |-> page.images] >> ELSE <<>>

\* extract_with_pdfplumber, loop body, with page_content created once
\* before the loop: the parts of the earlier pages stay in the list
PdfplumberBlocksCarryOver(page, page_num, with_tables) ==
    LET earlier == IF text_content = <<>> THEN <<>>
                   ELSE text_content[Len(text_content)].parts
        page_content ==
            earlier \o TextParts(page) \o TablesParts(page, with_tables)
                    \o ImageParts(page)
    IN  IF page_content /= <<>>
        THEN << [page_num |-> page_num, parts |-> page_content] >>
        ELSE <<>>

\* extract_with_pdfplumber, loop body, with the images checked first
PdfplumberBlocksImagesFirst(page, page_num, with_tables) ==
    LET page_content ==
            ImageParts(page) \o TextParts(page) \o TablesParts(page, with_tables)
    IN  IF page_content /= <<>>
        THEN << [page_num |-> page_num, parts |-> page_content] >>
        ELSE <<>>

\* extract_with_pdfplumber, loop body: the blocks appended for one page
PdfplumberBlocks(page, page_num, with_tables) ==
    LET page_content ==
            TextParts(page) \o TablesParts(page, with_tables) \o ImageParts(page)
    IN  IF page_content /= <<>>
        THEN << [page_num |-> page_num, parts |-> page_content] >>
        ELSE <<>>

\* the ranges of the model: any pair of page numbers around the document
DocRanges == {NoRange} \cup ((0..(MaxPages + 1)) \X (0..(MaxPages + 1)))

\* the paths of the model and the ones Path.exists() finds
Paths == {"pdf", "missing"}
Files == {"pdf"}

\* the arguments of PDFExtractor(pdf_path) and of the extract_* call that
\* follows: a path with its document and any range, or a path with no file
Init ==
    /\ op = "PDFExtractor"
    /\ pdf_path \in Paths
    /\ IF pdf_path \in Files
       THEN doc \in Docs(MaxPages) /\ page_range \in DocRanges
       ELSE doc = Idle /\ page_range = NoRange
    /\ method = "none" /\ extract_tables = FALSE
    /\ page_idx = 0 /\ text_content = <<>> /\ visited = <<>>
    /\ total_pages = 0 /\ indices = Idle /\ ret = Idle
    /\ text = Idle /\ cleaned = Idle /\ table = Idle /\ stats = Idle
    /\ num_columns = 0
    /\ NoCli

\* PDFExtractor.__init__: the path is kept, a path with no file raises
NewPDFExtractor ==
    /\ op = "PDFExtractor"
    /\ IF pdf_path \in Files
       THEN op' = "document" /\ UNCHANGED raised
       ELSE /\ op' = "raised"
            /\ raised' = FileNotFoundError(<<"PDF file not found: ", pdf_path>>)
    /\ UNCHANGED <<retryVars, extractVars, args, exit_status, calls, env, llm, page_range,
                   total_pages, indices, ret, text, cleaned, table, stats, num_columns>>

\* the statements of extract_* up to the loop: open the PDF, resolve the range
Open(backend, with_tables) ==
    /\ op = "document"
    /\ method' = backend
    /\ extract_tables' = with_tables
    /\ total_pages' = Len(doc)
    /\ indices' = _get_page_indices(Len(doc), page_range)
    /\ page_idx' = _get_page_indices(Len(doc), page_range)[1]
    /\ text_content' = <<>>
    /\ op' = "loop"
    /\ UNCHANGED <<cliVars, retryVars, doc, pdf_path, page_range, visited, ret, text, cleaned,
                   table, stats, num_columns>>

ExtractWithPymupdf == Open("pymupdf", FALSE)

ExtractWithPdfplumber == \E with_tables \in BOOLEAN : Open("pdfplumber", with_tables)

\* one iteration of `for page_idx in range(start_idx, end_idx)`
VisitPage ==
    /\ op = "loop"
    /\ page_idx < indices[2]
    /\ visited' = Append(visited, page_idx)
    /\ text_content' = text_content \o
          (IF method = "pymupdf"
           THEN PymupdfBlocks(doc[page_idx + 1], page_idx + 1)
           ELSE PdfplumberBlocks(doc[page_idx + 1], page_idx + 1, extract_tables))
    /\ page_idx' = page_idx + 1
    /\ UNCHANGED <<cliVars, retryVars, op, doc, pdf_path, method, extract_tables, page_range,
                   total_pages, indices, ret, text, cleaned, table, stats, num_columns>>

\* return "\n\n---\n\n".join(text_content)
Return ==
    /\ op = "loop"
    /\ page_idx >= indices[2]
    /\ ret' = text_content
    /\ op' = "done"
    /\ UNCHANGED <<cliVars, retryVars, extractVars, page_range, total_pages, indices, text, cleaned,
                   table, stats, num_columns>>

Next == NewPDFExtractor \/ ExtractWithPymupdf \/ ExtractWithPdfplumber \/ VisitPage \/ Return

Spec == Init /\ [][Next]_vars

(***************************************************************************)
(* Properties of the extraction loops.                                     *)
(***************************************************************************)
\* the page keeps content under the backend that runs: PyMuPDF keeps a text
\* with a non-whitespace character; pdfplumber keeps a text that is not
\* empty once cleaned, a valid table (when tables are extracted), an image
HasSurvivingContent(page) ==
    IF method = "pymupdf"
    THEN \E k \in 1..Len(page.text) : page.text[k] \notin Whitespace
    ELSE \/ _clean_text(page.text) /= <<>>
         \/ extract_tables /\ \E i \in 1..Len(page.tables) : _is_valid_table(page.tables[i])
         \/ page.images > 0

\* C3: for a page range (a, b) with 1 <= a <= b, the output of
\* extract_with_pymupdf and extract_with_pdfplumber holds a block labelled N
\* only if a <= N <= min(b, total_pages), and holds one exactly for the
\* pages of that interval with surviving content; every page of the
\* interval is read once, in increasing order, and the blocks appear in
\* strictly increasing N; a range beyond the document yields the empty
\* output.
C3_PageBlocksInRange ==
    (/\ op = "done"
     /\ page_range /= NoRange
     /\ page_range[1] >= 1 /\ page_range[2] >= page_range[1]) =>
        LET a == page_range[1]
            last == IF page_range[2] <= Len(doc) THEN page_range[2] ELSE Len(doc)
        IN  /\ \A i \in 1..Len(ret) : a <= ret[i].page_num /\ ret[i].page_num <= last
            /\ \A N \in a..last :
                  HasSurvivingContent(doc[N]) <=> \E i \in 1..Len(ret) : ret[i].page_num = N
            /\ \A i \in 1..Len(ret) : \A j \in 1..Len(ret) :
                  i < j => ret[i].page_num < ret[j].page_num
            /\ Len(visited) = (IF last >= a THEN last - a + 1 ELSE 0)
            /\ \A i \in 1..Len(visited) : visited[i] = a - 1 + (i - 1)
            /\ a > Len(doc) => ret = <<>>

\* C3 witness: pdfplumber ran on a three-page document with range (2, 4):
\* the range is cut at page 3, the page of glyph placeholders leaves no
\* block, and the only block is that of page 3 with its table.
C3_Witness ==
    /\ op = "done"
    /\ method = "pdfplumber" /\ extract_tables
    /\ doc = <<TextPage, GlyphPage, TablePage>>
    /\ page_range = <<2, 4>>
    /\ visited = <<1, 2>>
    /\ Len(ret) = 1 /\ ret[1].page_num = 3

(***************************************************************************)
(* The validator on grids of table size: a grid is drawn from the shaped   *)
(* grids (rows filled from the left, cell lengths around the length        *)
(* threshold) or from the named examples, and _is_valid_table or           *)
(* _calculate_table_statistics is called on it.                            *)
(***************************************************************************)
ShapedRows    == 5
ShapedColumns == 3

ColumnLetter(j) == <<"a", "b", "c", "d", "e", "f", "g", "h">>[j]

\* the cell of column j: its own letter, lens[1] times in an odd column and
\* lens[2] times in an even one
ShapedCell(lens, j) ==
    [i \in 1..(IF j % 2 = 1 THEN lens[1] ELSE lens[2]) |-> ColumnLetter(j)]

\* a row of c cells, the first k of them filled and the others absent
ShapedRow(c, lens, k) ==
    [j \in 1..c |-> IF j <= k THEN ShapedCell(lens, j) ELSE None]

\* numbers of filled cells per row: any for the first row, in
\* non-increasing order for the rows after it
Fills(r, c) ==
    {f \in [1..r -> 0..c] : \A i \in 2..(r - 1) : f[i] >= f[i + 1]}

\* the grid of r rows and c columns with f[i] filled cells in row i
ShapedGrid(r, c, f, lens) == [i \in 1..r |-> ShapedRow(c, lens, f[i])]

\* the pairs of cell lengths of the model
LengthPairs == {<<1, 1>>, <<14, 14>>, <<15, 15>>, <<14, 16>>, <<16, 15>>}

\* the cells of a first row that repeats a label: the label, the label
\* with a leading blank, an absent cell, an empty one, a whitespace-only one
LabelCell == ShapedCell(<<15, 15>>, 1)
HeaderCells == {LabelCell, <<" ">> \o LabelCell, None, <<>>, <<" ">>}

\* 20-character strings: two of letters, one with a blank inside, one with
\* a leading blank, one of blanks
TwentyCells ==
    {LongCell, OtherCell,
     [LongCell EXCEPT ![10] = " "],
     [LongCell EXCEPT ![1] = " "],
     [i \in 1..20 |-> " "]}

\* the argument of the validator is a shaped grid; or a shaped grid with a
\* first row of absent cells, that row replaced by an absent row or by a
\* row of no cells; or a grid of ShapedRows rows with a first row of header
\* cells over full rows of 15-character cells; or a grid of 5 rows and 2
\* columns of 20-character strings, any first row over four equal rows; or
\* a named example
InitValid ==
    /\ op = "table"
    /\ \/ \E r \in 1..ShapedRows, c \in 1..ShapedColumns, lens \in LengthPairs :
             \E f \in Fills(r, c) :
                \/ table = ShapedGrid(r, c, f, lens)
                \/ /\ f[1] = 0 /\ lens = <<15, 15>>
                   /\ \E h \in {NoneRow, <<>>} :
                         table = [ShapedGrid(r, c, f, lens) EXCEPT ![1] = h]
       \/ \E c \in 2..ShapedColumns : \E header \in [1..c -> HeaderCells] :
             table = <<header>> \o
                     [i \in 1..(ShapedRows - 1) |-> ShapedRow(c, <<15, 15>>, c)]
       \/ \E header \in TwentyCells \X TwentyCells, row \in TwentyCells \X TwentyCells :
             table = <<header>> \o [i \in 1..4 |-> row]
       \/ table \in {<<>>, SparseTable, DenseTable}
    /\ text = Idle /\ stats = Idle /\ num_columns = 0 /\ ret = Idle /\ cleaned = Idle
    /\ total_pages = 0 /\ page_range = NoRange /\ indices = Idle
    /\ NoExtraction /\ NoCli

NextValid == IsValidTable \/ CalculateTableStatistics

SpecValid == InitValid /\ [][NextValid]_vars

\* the grid passes the three structural checks: at least 2 rows, a first
\* row not of exactly 1 column, a first row not of a single repeated value
PassesStructuralChecks(t) ==
    /\ t /= NoneTable /\ Len(t) >= 2
    /\ RowTruthy(t[1]) => Len(t[1]) /= 1
    /\ RowTruthy(t[1]) => Cardinality(FirstRowValues(t[1])) /= 1

\* C11: for every grid that passes the three structural checks,
\* _is_valid_table returns true if and only if content_density >= 0.4 and
\* non_empty_rows >= 4 and avg_cell_length >= 15 and
\* avg_row_fill_rate(columns of the first row) >= 0.4, a value equal to a
\* threshold not causing rejection; the 5x5 grid with only its diagonal
\* filled with 1-character values is rejected.
C11_ThresholdRule ==
    /\ (op = "_is_valid_table" /\ PassesStructuralChecks(table)) =>
          LET cells   == Cardinality(CellPositions(table))
              content == ContentPositions(table)
              filled  == Cardinality(content)
              rows    == Len(ContentRows(table))
              columns == IF RowTruthy(table[1]) THEN Len(table[1]) ELSE 0
          IN  ret = TRUE <=>
                /\ cells > 0 /\ 5 * filled >= 2 * cells
                /\ rows >= 4
                /\ filled > 0 /\ TotalTrimmedLength(table, content) >= 15 * filled
                /\ columns > 0 /\ 5 * filled >= 2 * rows * columns
    /\ (op = "_is_valid_table" /\ table = SparseTable) => ret = FALSE

\* C12: every grid accepted by _is_valid_table has at least 2 rows and a
\* first row with at least 2 columns: a grid with fewer than 2 rows, a grid
\* whose first row has exactly 1 column, and a grid whose first row is
\* absent or has no cells are rejected whatever the cells hold.
C12_AcceptedShape ==
    op = "_is_valid_table" =>
        /\ ret = TRUE =>
              /\ Len(table) >= 2
              /\ table[1] /= NoneRow
              /\ Len(table[1]) >= 2
        /\ (Len(table) < 2 \/ table[1] = NoneRow \/ Len(table[1]) <= 1) => ret = FALSE

\* C12 witness: _is_valid_table rejected a grid of 5 rows whose first row is
\* absent and whose other rows are two full columns of 15-character cells.
C12_Witness ==
    /\ op = "_is_valid_table"
    /\ Len(table) = 5
    /\ table[1] = NoneRow
    /\ \A r \in 2..5 :
          /\ Len(table[r]) = 2
          /\ \A k \in 1..2 : HasContent(table[r][k]) /\ Len(table[r][k]) = 15
    /\ ret = FALSE

\* the trimmed values of the cells of the row that have content
ContentValues(row) ==
    {Strip(row[k]) : k \in {j \in 1..Len(row) : HasContent(row[j])}}

\* C13: _is_valid_table rejects every grid of at least 2 rows whose first
\* row's cells that are non-empty after trimming all hold one and the same
\* value, whatever the other cells of that row are (absent, empty or
\* whitespace-only) and whatever the other rows hold.
C13_RepeatedLabelRejected ==
    (/\ op = "_is_valid_table"
     /\ Len(table) >= 2
     /\ RowTruthy(table[1])
     /\ Cardinality(ContentValues(table[1])) = 1) => ret = FALSE

\* a grid of 5 rows and 2 columns whose every cell is a 20-character string
IsTwentyGrid(t) ==
    /\ Len(t) = 5
    /\ \A r \in 1..5 :
          /\ t[r] /= NoneRow /\ Len(t[r]) = 2
          /\ \A k \in 1..2 : t[r][k] /= None /\ Len(t[r][k]) = 20

\* C14 as claimed: every grid of 5 rows and 2 columns in which every cell
\* holds a 20-character string is accepted by _is_valid_table, for every
\* choice of the strings.
C14_EveryTwentyGridAccepted ==
    (op = "_is_valid_table" /\ IsTwentyGrid(table)) => ret = TRUE

\* C14 as amended: every grid of 5 rows and 2 columns in which every cell
\* holds a 20-character string that neither begins nor ends with
\* whitespace, and whose first row holds two different strings, is
\* accepted by _is_valid_table, with non_empty_cells = total_cells = 10
\* (content_density 1.0), total_text_length = 200 (avg_cell_length 20),
\* non_empty_rows = 5 and 2 non-empty cells in every row
\* (avg_row_fill_rate 1.0).
C14_TwentyGridAccepted ==
    (/\ op \in {"_is_valid_table", "_calculate_table_statistics"}
     /\ table /= NoneTable
     /\ IsTwentyGrid(table)
     /\ \A r \in 1..5 : \A k \in 1..2 :
           table[r][k][1] \notin Whitespace /\ table[r][k][20] \notin Whitespace
     /\ table[1][1] /= table[1][2]) =>
        /\ op = "_is_valid_table" => ret = TRUE
        /\ op = "_calculate_table_statistics" =>
              /\ stats.non_empty_cells = 10 /\ stats.total_cells = 10
              /\ stats.total_text_length = 200
              /\ stats.non_empty_rows = 5
              /\ stats.cells_per_row = <<2, 2, 2, 2, 2>>

\* C14 witness: _is_valid_table accepted a grid of 5 rows and 2 columns of
\* 20-character strings, one of them with a blank inside, whose first row
\* holds two different strings and whose other rows repeat one string.
C14_Witness ==
    /\ op = "_is_valid_table"
    /\ IsTwentyGrid(table)
    /\ table[1] = <<LongCell, [LongCell EXCEPT ![10] = " "]>>
    /\ table[2] = <<OtherCell, OtherCell>>
    /\ ret = TRUE

(***************************************************************************)
(* The renderer on grids of several full rows: a grid of at most           *)
(* FormatRows rows of 1 or 2 cells is drawn and _format_table_as_markdown  *)
(* is called on it.                                                        *)
(***************************************************************************)
FormatRows == 3

\* an absent cell, a glyph placeholder, a text with a line break, a
\* delimiter character
FormatCells ==
    {None,
     <<"(", "c", "i", "d", ":", "1", ")">>,
     <<"a", "\n", "b">>,
     <<"|">>}

\* the rows of c cells, and the absent row
FormatRowsOf(c) == [1..c -> FormatCells] \cup {NoneRow}

InitFormat ==
    /\ op = "table"
    /\ \E r \in 0..FormatRows, c \in {1, 2} : table \in [1..r -> FormatRowsOf(c)]
    /\ text = Idle /\ stats = Idle /\ num_columns = 0 /\ ret = Idle /\ cleaned = Idle
    /\ total_pages = 0 /\ page_range = NoRange /\ indices = Idle
    /\ NoExtraction /\ NoCli

NextFormat == FormatTableAsMarkdown

SpecFormat == InitFormat /\ [][NextFormat]_vars

\* the cell with its newlines replaced by spaces and then cleaned
CleanedCell(cell) ==
    IF cell = None THEN <<>> ELSE _clean_text(ReplaceNewline(cell))

\* indices of the rows that keep a non-empty cell once cleaned, in order
SurvivingRows(t) ==
    SelectSeq([r \in 1..Len(t) |-> r],
              LAMBDA r : /\ t[r] /= NoneRow
                         /\ \E k \in 1..Len(t[r]) : CleanedCell(t[r][k]) /= <<>>)

\* the lines of a string: its pieces between line breaks
RECURSIVE SplitLines(_)
SplitLines(s) ==
    IF \A k \in 1..Len(s) : s[k] /= "\n" THEN <<s>>
    ELSE LET k == CHOOSE j \in 1..Len(s) :
                     s[j] = "\n" /\ \A i \in 1..(j - 1) : s[i] /= "\n"
         IN  <<SubSeq(s, 1, k - 1)>> \o SplitLines(SubSeq(s, k + 1, Len(s)))

\* C15: _format_table_as_markdown cleans every cell (newline replaced by
\* space, then _clean_text), drops every row whose cleaned cells are all
\* empty, and returns the empty string if and only if no row survives;
\* otherwise it returns exactly (number of surviving rows + 1) lines: the
\* first surviving row as header, one separator line, then the other
\* surviving rows in their original order.
C15_FormatLines ==
    (op = "_format_table_as_markdown" /\ table /= NoneTable) =>
        LET rows  == SurvivingRows(table)
            line(r) == TableLine([k \in 1..Len(table[r]) |-> CleanedCell(table[r][k])])
            lines == SplitLines(ret)
        IN  /\ ret = <<>> <=> rows = <<>>
            /\ rows /= <<>> =>
                  /\ Len(lines) = Len(rows) + 1
                  /\ lines[1] = line(rows[1])
                  /\ lines[2] = TableLine([k \in 1..Len(table[rows[1]]) |-> <<"-", "-", "-">>])
                  /\ \A j \in 2..Len(rows) : lines[j + 1] = line(rows[j])

\* C15 witness: a grid of 3 rows and 2 columns whose cells are all
\* non-empty after cleaning was rendered as 4 lines.
C15_Witness ==
    /\ op = "_format_table_as_markdown"
    /\ Len(table) = 3
    /\ \A r \in 1..3 :
          /\ table[r] /= NoneRow /\ Len(table[r]) = 2
          /\ \A k \in 1..2 : CleanedCell(table[r][k]) /= <<>>
    /\ Len(SplitLines(ret)) = 4

\* the number of delimiter characters of the line
Delimiters(line) == Cardinality({k \in 1..Len(line) : line[k] = "|"})

\* C16: every line rendered by _format_table_as_markdown begins and ends
\* with the delimiter '|' and holds exactly (number of cells of its row + 1)
\* delimiter characters, whatever the cells hold; the separator line has
\* the column count of the header row.
C16_DelimitersPerLine ==
    (op = "_format_table_as_markdown" /\ table /= NoneTable /\ ret /= <<>>) =>
        LET rows  == SurvivingRows(table)
            lines == SplitLines(ret)
            \* the row rendered as line j: the header for the first two lines
            row(j) == table[rows[IF j <= 2 THEN 1 ELSE j - 1]]
        IN  \A j \in 1..Len(lines) :
               /\ lines[j] /= <<>>
               /\ lines[j][1] = "|" /\ lines[j][Len(lines[j])] = "|"
               /\ j <= Len(rows) + 1 => Delimiters(lines[j]) = Len(row(j)) + 1

(***************************************************************************)
(* The extraction loops on one page of any make-up: a text, up to          *)
(* MaxCandidates candidate tables and up to 2 images.                      *)
(***************************************************************************)
MaxCandidates == 3

\* a second valid grid of 5 rows and 2 columns
DenseTable2 == [r \in 1..5 |-> <<OtherCell, LongCell>>]

\* what page.extract_tables() may hold: a diagram-shaped grid, two valid
\* grids, an empty grid
Candidates == {SparseTable, DenseTable, DenseTable2, <<>>}

\* the sequences of at most n candidates
RECURSIVE CandidateLists(_)
CandidateLists(n) ==
    IF n = 0 THEN {<<>>}
    ELSE LET C == CandidateLists(n - 1)
         IN  C \cup {Append(c, t) : c \in C, t \in Candidates}

\* what page.extract_text() may hold: nothing, text with a glyph
\* placeholder, a glyph placeholder alone, whitespace
PageTexts == {BlankPage.text, TextPage.text, GlyphPage.text, FigurePage.text}

InitPage ==
    /\ op = "PDFExtractor"
    /\ pdf_path \in Paths
    /\ IF pdf_path \in Files
       THEN \E t \in PageTexts, c \in CandidateLists(MaxCandidates), n \in 0..2 :
               doc = << [text |-> t, tables |-> c, images |-> n] >>
       ELSE doc = Idle
    /\ page_range = NoRange
    /\ method = "none" /\ extract_tables = FALSE
    /\ page_idx = 0 /\ text_content = <<>> /\ visited = <<>>
    /\ total_pages = 0 /\ indices = Idle /\ ret = Idle
    /\ text = Idle /\ cleaned = Idle /\ table = Idle /\ stats = Idle
    /\ num_columns = 0
    /\ NoCli

SpecPage == InitPage /\ [][Next]_vars

\* the positions of the parts of the given kinds
PartsOfKind(parts, kinds) == {i \in 1..Len(parts) : parts[i].kind \in kinds}

\* C17: in every page block produced by extract_with_pdfplumber the parts
\* appear in this order: the cleaned page text (present if and only if it
\* is non-empty after cleaning), then the rendered valid tables, each
\* immediately preceded by its own index label, then the image annotation,
\* present if and only if image_count > 0 and stating that count; with
\* extract_tables disabled no table part is produced.
C17_PartOrder ==
    (op = "done" /\ method = "pdfplumber") =>
        LET page  == doc[1]
            parts == IF ret = <<>> THEN <<>> ELSE ret[1].parts
            texts  == PartsOfKind(parts, {"text"})
            notes  == PartsOfKind(parts, {"image_note"})
            tables == PartsOfKind(parts, {"table"})
            labels == PartsOfKind(parts, {"table_label"})
        IN  /\ Len(ret) <= 1
            /\ texts = (IF _clean_text(page.text) /= <<>> THEN {1} ELSE {})
            /\ texts /= {} => parts[1].value = _clean_text(page.text)
            /\ notes = (IF page.images > 0 THEN {Len(parts)} ELSE {})
            /\ notes /= {} => parts[Len(parts)].value = page.images
            /\ \A i \in tables : i - 1 \in labels
            /\ \A i \in labels : i + 1 \in tables
            /\ \A i \in tables : \A j \in tables :
                  i < j => parts[i - 1].value < parts[j - 1].value
            /\ ~extract_tables =>
                  PartsOfKind(parts, {"table", "table_label", "tables_heading"}) = {}

\* C17 witness: extract_with_pdfplumber, tables enabled, returned for a page
\* with a text holding a glyph placeholder, a diagram-shaped and a valid
\* candidate and 2 images the block of text, heading, label, table, empty
\* line and image note.
C17_Witness ==
    /\ op = "done" /\ method = "pdfplumber" /\ extract_tables
    /\ doc = << [text |-> TextPage.text, tables |-> <<SparseTable, DenseTable>>,
                 images |-> 2] >>
    /\ Len(ret) = 1
    /\ [i \in 1..Len(ret[1].parts) |-> ret[1].parts[i].kind] =
          <<"text", "tables_heading", "table_label", "table", "empty_line", "image_note">>

\* the values of the parts of the given kind, in order
ValuesOfKind(parts, kind) ==
    LET of_kind == SelectSeq(parts, LAMBDA part : part.kind = kind)
    IN  [i \in 1..Len(of_kind) |-> of_kind[i].value]

\* C18: within a page block exactly the candidate tables accepted by
\* _is_valid_table are rendered, in extraction order, labelled 1, 2, ..., k
\* without gaps; a rejected candidate produces no output and consumes no
\* index, wherever it sits among the candidates.  A page with glyph-artifact
\* text, one valid table, one diagram-shaped table and 2 images yields the
\* cleaned text, one rendered table labelled 1 and an annotation of 2.
C18_AcceptedTablesRendered ==
    (op = "done" /\ method = "pdfplumber" /\ extract_tables) =>
        LET page  == doc[1]
            parts == IF ret = <<>> THEN <<>> ELSE ret[1].parts
            accepted == SelectSeq(page.tables, LAMBDA t : _is_valid_table(t))
        IN  /\ ValuesOfKind(parts, "table") =
                  [k \in 1..Len(accepted) |-> _format_table_as_markdown(accepted[k])]
            /\ ValuesOfKind(parts, "table_label") = [k \in 1..Len(accepted) |-> k]
            /\ (/\ page.text = TextPage.text
                /\ page.tables \in {<<DenseTable, SparseTable>>, <<SparseTable, DenseTable>>}
                /\ page.images = 2) =>
                  /\ ValuesOfKind(parts, "text") = << <<"a">> >>
                  /\ ValuesOfKind(parts, "table_label") = <<1>>
                  /\ ValuesOfKind(parts, "table") = <<_format_table_as_markdown(DenseTable)>>
                  /\ ValuesOfKind(parts, "image_note") = <<2>>

\* C18 witness: a page with glyph-artifact text, a valid candidate before a
\* diagram-shaped one and 2 images gave one table part, labelled 1.
C18_Witness ==
    /\ op = "done" /\ method = "pdfplumber" /\ extract_tables
    /\ doc = << [text |-> TextPage.text, tables |-> <<DenseTable, SparseTable>>,
                 images |-> 2] >>
    /\ Len(ret) = 1
    /\ ValuesOfKind(ret[1].parts, "table_label") = <<1>>
    /\ ValuesOfKind(ret[1].parts, "image_note") = <<2>>

(***************************************************************************)
(* MarpConverter.__init__ and the provider constructors                    *)
(* (src/src/kindle2keynote/marp_converter.py).  A message is the sequence  *)
(* of its words.  A constructor yields the exception raised, the provider  *)
(* object built and the SDK clients created on the way.                    *)
(***************************************************************************)
NoException == [type |-> "none", message |-> <<>>]
ValueError(message) == [type |-> "ValueError", message |-> message]

NoClient   == [sdk |-> "none", api_key |-> None]
\* self.llm of a converter whose construction did not finish
NoProvider == [provider |-> "none", api_key |-> None, client |-> NoClient]

\* the constructor of a provider: `api_key or os.getenv(variable)`, a
\* ValueError naming the variable when that is falsy, else the SDK client
Provider(name, sdk, variable, api_key, environ) ==
    LET key == IF Truthy(api_key) THEN api_key ELSE environ[variable]
    IN  IF ~Truthy(key)
        THEN [raised |-> ValueError(<<variable, "not", "found", "in", "environment">>),
              llm |-> NoProvider, clients |-> <<>>]
        ELSE LET client == [sdk |-> sdk, api_key |-> key]
             IN  [raised |-> NoException,
                  llm |-> [provider |-> name, api_key |-> key, client |-> client],
                  clients |-> <<[fn |-> sdk, provider |-> name, api_key |-> key]>>]

AnthropicProvider(api_key, environ) ==
    Provider("anthropic", "Anthropic", "ANTHROPIC_API_KEY", api_key, environ)

OpenAIProvider(api_key, environ) ==
    Provider("openai", "OpenAI", "OPENAI_API_KEY", api_key, environ)

GeminiProvider(api_key, environ) ==
    Provider("gemini", "genai.Client", "GEMINI_API_KEY", api_key, environ)

\* MarpConverter(provider, api_key)
MarpConverter(provider, api_key, environ) ==
    IF provider = "anthropic" THEN AnthropicProvider(api_key, environ)
    ELSE IF provider = "openai" THEN OpenAIProvider(api_key, environ)
    ELSE IF provider = "gemini" THEN GeminiProvider(api_key, environ)
    ELSE [raised |-> ValueError(<<"Unknown", "provider:", provider \o ".", "Use",
                                   "'anthropic',", "'openai',", "or", "'gemini'">>),
          llm |-> NoProvider, clients |-> <<>>]

\* an API key: unset, empty, set
ApiKeys == {None, <<>>, <<"k", "1">>, <<"k", "2">>}

\* os.environ once load_dotenv() has run
Environments ==
    [{"ANTHROPIC_API_KEY", "OPENAI_API_KEY", "GEMINI_API_KEY"} -> ApiKeys \ {<<"k", "2">>}]

InitConverter ==
    /\ op = "environment"
    /\ env \in Environments
    /\ llm = NoProvider /\ raised = NoException /\ calls = <<>>
    /\ args = Idle /\ exit_status = Idle
    /\ attempt = 0 /\ full_response = Idle
    /\ text = Idle /\ stats = Idle /\ num_columns = 0 /\ ret = Idle /\ cleaned = Idle
    /\ table = Idle /\ total_pages = 0 /\ page_range = NoRange /\ indices = Idle
    /\ NoExtraction

\* MarpConverter(provider=..., api_key=...)
ConstructMarpConverter ==
    /\ op = "environment"
    /\ \E provider \in {"anthropic", "openai", "gemini", "claude"},
          api_key \in ApiKeys \ {<<"k", "1">>} :
          LET made == MarpConverter(provider, api_key, env)
          IN  /\ calls' = <<[fn |-> "MarpConverter", provider |-> provider,
                             api_key |-> api_key]>> \o made.clients
              /\ llm' = made.llm
              /\ raised' = made.raised
    /\ op' = "MarpConverter"
    /\ UNCHANGED <<retryVars, extractVars, args, exit_status, env, total_pages, page_range,
                   indices, text, cleaned, table, stats, num_columns, ret>>

NextConverter == ConstructMarpConverter

SpecConverter == InitConverter /\ [][NextConverter]_vars

\* C20: constructing MarpConverter when no API key is passed and none is
\* configured raises ProviderError with a message naming
\* ANTHROPIC_API_KEY, and no provider client is created.
C20_MissingKeyRaisesProviderError ==
    (/\ op = "MarpConverter"
     /\ calls[1].provider = "anthropic"
     /\ calls[1].api_key = None
     /\ env["ANTHROPIC_API_KEY"] = None) =>
        /\ raised.type = "ProviderError"
        /\ \E i \in 1..Len(raised.message) : raised.message[i] = "ANTHROPIC_API_KEY"
        /\ llm = NoProvider
        /\ Len(calls) = 1

(***************************************************************************)
(* main (src/main.py and src/src/pdf2keynote/main.py): the command line is *)
(* validated, the page range parsed, the text extracted, converted and     *)
(* saved.  The steps of main are its calls of the extractor, of the        *)
(* converter and of the file system; what those return is any of their     *)
(* outcomes.                                                               *)
(***************************************************************************)
MaxArgLen == 4

\* str.split(sep) for a one-character separator
RECURSIVE Split(_, _)
Split(s, sep) ==
    IF \A k \in 1..Len(s) : s[k] /= sep THEN <<s>>
    ELSE LET k == CHOOSE j \in 1..Len(s) :
                     s[j] = sep /\ \A i \in 1..(j - 1) : s[i] /= sep
         IN  <<SubSeq(s, 1, k - 1)>> \o Split(SubSeq(s, k + 1, Len(s)), sep)

DigitChars == <<"0", "1", "2", "3", "4", "5", "6", "7", "8", "9">>

\* the value int() gives a decimal digit, ASCII or not
DigitValue(c) ==
    IF \E i \in 1..10 : DigitChars[i] = c
    THEN (CHOOSE i \in 1..10 : DigitChars[i] = c) - 1
    ELSE CHOOSE v \in 0..9 : \E k \in 1..Len(DigitZeros) : c = Chr(DigitZeros[k] + v)

\* the digits and underscores after the sign of an integer literal
Unsigned(t) == IF t /= <<>> /\ t[1] \in {"+", "-"} THEN Tail(t) ELSE t

\* int(t) accepts t: once trimmed, an optional sign, then digits, single
\* underscores allowed between digits
IsIntLiteral(t) ==
    LET body == Unsigned(Strip(t))
    IN  /\ body /= <<>>
        /\ \A k \in 1..Len(body) : body[k] \in Digit \cup {"_"}
        /\ body[1] \in Digit /\ body[Len(body)] \in Digit
        /\ \A k \in 1..(Len(body) - 1) : ~(body[k] = "_" /\ body[k + 1] = "_")

\* the value of the digits of body, underscores skipped
RECURSIVE DigitsValue(_, _)
DigitsValue(body, acc) ==
    IF body = <<>> THEN acc
    ELSE IF body[1] = "_" THEN DigitsValue(Tail(body), acc)
    ELSE DigitsValue(Tail(body), 10 * acc + DigitValue(body[1]))

\* int(t) for a literal t
IntValue(t) ==
    LET trimmed == Strip(t)
        value == DigitsValue(Unsigned(trimmed), 0)
    IN  IF trimmed[1] = "-" THEN 0 - value ELSE value

\* the page-range block of main: page_range as handed to the extractor, or
\* the ValueError that ends in sys.exit(1)
ParsePageRange(value) ==
    IF ~Truthy(value) THEN [ok |-> TRUE, page_range |-> NoRange]
    ELSE LET parts == Split(value, "-")
         IN  IF Len(parts) /= 2 THEN [ok |-> FALSE, page_range |-> NoRange]
             ELSE IF ~IsIntLiteral(parts[1]) \/ ~IsIntLiteral(parts[2])
                  THEN [ok |-> FALSE, page_range |-> NoRange]
             ELSE LET start_page == IntValue(parts[1])
                      end_page   == IntValue(parts[2])
                  IN  IF start_page < 1 \/ end_page < start_page
                      THEN [ok |-> FALSE, page_range |-> NoRange]
                      ELSE [ok |-> TRUE, page_range |-> <<start_page, end_page>>]

\* the characters of the --page-range values of the model
ArgChars == {"0", "1", "2", "-", " ", "a", "+", "_"}

\* the strings of at most n characters
ArgStrings(n) == UNION {[1..k -> ArgChars] : k \in 0..n}

AllKeysSet == [v \in {"ANTHROPIC_API_KEY", "OPENAI_API_KEY", "GEMINI_API_KEY"} |-> <<"k", "1">>]

\* args.page_range after parser.parse_args() for the argument
\* --page-range=value: argparse takes the value '--' out of the option's
\* arguments and leaves the empty list, here <<>> like the empty str
ArgparseValue(value) == IF value = <<"-", "-">> THEN <<>> ELSE value

\* args after parser.parse_args(): any --page-range=value for a PDF that
\* exists; or any input file, --save-text, provider and environment with
\* no page range or the range 1-2
InitCli ==
    /\ op = "main"
    /\ \/ /\ \E prog \in {"kindle2keynote", "pdf2keynote"},
                value \in ArgStrings(MaxArgLen) :
                args = [prog |-> prog, input |-> "pdf",
                        page_range |-> ArgparseValue(value),
                        save_text |-> FALSE, provider |-> "anthropic"]
          /\ env = AllKeysSet
       \/ /\ \E prog \in {"kindle2keynote", "pdf2keynote"},
                input \in {"pdf", "missing", "not_pdf"},
                value \in {None, <<"1", "-", "2">>},
                save \in BOOLEAN :
                args = [prog |-> prog, input |-> input, page_range |-> value,
                        save_text |-> save, provider |-> "anthropic"]
          /\ env \in {AllKeysSet, [AllKeysSet EXCEPT !["ANTHROPIC_API_KEY"] = None]}
    /\ exit_status = Idle /\ calls = <<>>
    /\ llm = NoProvider /\ raised = NoException
    /\ attempt = 0 /\ full_response = Idle
    /\ page_range = NoRange /\ ret = Idle
    /\ text = Idle /\ stats = Idle /\ num_columns = 0 /\ cleaned = Idle
    /\ table = Idle /\ total_pages = 0 /\ indices = Idle
    /\ NoExtraction

\* sys.exit(status)
Exit(status) == op' = "exit" /\ exit_status' = status

\* an exception raised inside the try block of main by the call of fn
Raised(fn) == [type |-> "Exception", message |-> <<fn>>]

\* an exception raised inside the try block of main by a print to stdout
PrintRaised(message) == [type |-> "Exception", message |-> <<"print", message>>]

\* what a progress message of main may do: src/main.py prints it, and the
\* print may raise; src/src/pdf2keynote/main.py logs it, which does not
PrintOutcomes == IF args.prog = "kindle2keynote" THEN {"printed", "print_raises"}
                 ELSE {"printed"}

\* main up to the extraction: the input file is checked, then the page
\* range parsed and, when there is one, announced
Start ==
    /\ op = "main"
    /\ IF args.input /= "pdf"
       THEN Exit(1) /\ UNCHANGED <<page_range, raised>>
       ELSE LET parsed == ParsePageRange(args.page_range)
            IN  IF ~parsed.ok
                THEN Exit(1) /\ UNCHANGED <<page_range, raised>>
                ELSE /\ page_range' = parsed.page_range
                     /\ \E announced \in PrintOutcomes :
                           IF parsed.page_range /= NoRange /\ announced = "print_raises"
                           THEN Exit(1) /\ raised' = PrintRaised("Extracting pages")
                           ELSE op' = "parsed" /\ UNCHANGED <<exit_status, raised>>
    /\ UNCHANGED <<retryVars, extractVars, args, calls, env, llm, total_pages, indices,
                   text, cleaned, table, stats, num_columns, ret>>

\* Step 1: the step is announced, then PDFExtractor(args.input_pdf) and
\* extractor.extract(...), which returns text, returns blank text or
\* raises; the length of a non-blank text is announced
Extract ==
    /\ op = "parsed"
    /\ \E announced \in PrintOutcomes :
          IF announced = "print_raises"
          THEN /\ Exit(1) /\ raised' = PrintRaised("Extracting text")
               /\ UNCHANGED <<calls, ret>>
          ELSE \E outcome \in {"text", "blank", "raises"}, counted \in PrintOutcomes :
                  /\ calls' = calls
                        \o (IF args.prog = "pdf2keynote"    \* the page-count warning
                            THEN <<[fn |-> "fitz.open", arg |-> NoRange]>> ELSE <<>>)
                        \o <<[fn |-> "PDFExtractor", arg |-> NoRange],
                              [fn |-> "extract", arg |-> page_range]>>
                  /\ ret' = IF outcome = "text" THEN <<"t">> ELSE <<>>
                  /\ IF outcome = "text" /\ counted = "printed"
                     THEN op' = "extracted" /\ UNCHANGED exit_status
                     ELSE Exit(1)
                  /\ raised' = IF outcome = "raises" THEN Raised("extract")
                               ELSE IF outcome = "text" /\ counted = "print_raises"
                               THEN PrintRaised("Successfully extracted")
                               ELSE raised
    /\ UNCHANGED <<retryVars, extractVars, args, env, llm, total_pages, page_range,
                   indices, text, cleaned, table, stats, num_columns>>

\* the optional save of the text, which may raise, and its message; then
\* Step 2: the step is announced, then MarpConverter(...) and
\* converter.convert_to_marp(...), which returns slides or raises
Convert ==
    /\ op = "extracted"
    /\ LET made == MarpConverter(args.provider, None, env)
           saved == IF args.save_text
                    THEN <<[fn |-> "write_text", arg |-> "save_text"]>> ELSE <<>>
           built == saved \o <<[fn |-> "MarpConverter", arg |-> args.provider]>>
       IN  \/ /\ args.save_text
              /\ calls' = calls \o saved
              /\ \E outcome \in {"write_raises"} \cup (PrintOutcomes \ {"printed"}) :
                    raised' = IF outcome = "write_raises" THEN Raised("save_text")
                              ELSE PrintRaised("Extracted text saved")
              /\ Exit(1)
              /\ UNCHANGED llm
           \/ /\ "print_raises" \in PrintOutcomes
              /\ calls' = calls \o saved
              /\ raised' = PrintRaised("Converting to Marp")
              /\ Exit(1)
              /\ UNCHANGED llm
           \/ /\ llm' = made.llm
              /\ IF made.raised /= NoException
                 THEN Exit(1) /\ calls' = calls \o built /\ raised' = made.raised
                 ELSE \E outcome \in {"slides", "raises"} :
                         /\ calls' = calls \o built \o
                                       <<[fn |-> "convert_to_marp", arg |-> ret]>>
                         /\ IF outcome = "slides"
                            THEN /\ op' = "converted"
                                 /\ UNCHANGED <<exit_status, raised>>
                            ELSE Exit(1) /\ raised' = Raised("convert_to_marp")
    /\ UNCHANGED <<retryVars, extractVars, args, env, total_pages, page_range, indices,
                   text, cleaned, table, stats, num_columns, ret>>

\* Step 3: the directory of the output file is made, the file is written and
\* the closing messages are printed; mkdir may raise before anything is
\* written, the write may raise, and so may a print once the file is written
Save ==
    /\ op = "converted"
    /\ \E outcome \in {"done", "mkdir_raises", "write_raises", "print_raises"} :
          /\ calls' = calls
                \o (IF outcome = "mkdir_raises" THEN <<>>
                    ELSE <<[fn |-> "write_text", arg |-> "output_marp"]>>)
                \o (IF outcome \in {"mkdir_raises", "write_raises"} THEN <<>>
                    ELSE <<[fn |-> "print", arg |-> "output_marp"]>>)
          /\ raised' = IF outcome = "mkdir_raises" THEN Raised("mkdir")
                       ELSE IF outcome = "write_raises" THEN Raised("output_marp")
                       ELSE IF outcome = "print_raises"
                       THEN PrintRaised("Conversion completed")
                       ELSE raised
          /\ Exit(IF outcome = "done" THEN 0 ELSE 1)
    /\ UNCHANGED <<retryVars, extractVars, args, env, llm, total_pages, page_range,
                   indices, text, cleaned, table, stats, num_columns, ret>>

NextCli == Start \/ Extract \/ Convert \/ Save

SpecCli == InitCli /\ [][NextCli]_vars

\* the value has the form start-end: one '-', with an integer on each
\* side, start >= 1 and end >= start
WellFormedRange(value) ==
    \E k \in 1..Len(value) :
       /\ value[k] = "-"
       /\ \A j \in 1..Len(value) : value[j] = "-" => j = k
       /\ LET start == SubSeq(value, 1, k - 1)
              end   == SubSeq(value, k + 1, Len(value))
          IN  /\ IsIntLiteral(start) /\ IsIntLiteral(end)
              /\ IntValue(start) >= 1 /\ IntValue(end) >= IntValue(start)

\* C19: the CLI passes to the extractor only an absent page range or a pair
\* (start, end) with start >= 1 and end >= start; every --page-range value
\* that is not of the form 'start-end' with two integers within these
\* bounds makes the program exit with status 1 before the extractor is
\* constructed and before any LLM call.
C19_OnlyValidRangesReachExtractor ==
    /\ \A i \in 1..Len(calls) :
          calls[i].fn = "extract" =>
             \/ calls[i].arg = NoRange
             \/ calls[i].arg[1] >= 1 /\ calls[i].arg[2] >= calls[i].arg[1]
    /\ (args.page_range /= None /\ ~WellFormedRange(args.page_range)) =>
          /\ calls = <<>>
          /\ op /= "main" => op = "exit" /\ exit_status = 1

(***************************************************************************)
(* The cleaning pipeline as specified: three passes, whitespace collapsed  *)
(* once.                                                                   *)
(***************************************************************************)
\* placeholders deleted, then header noise deleted, then whitespace runs
\* collapsed to one space and the ends stripped, once
ThreePassClean(t) ==
    IF t = None \/ t = <<>> THEN <<>>
    ELSE Strip(SubWhitespace(SubRoman(SubPart(SubCid(t, 1), 1), 1), 1))

\* C21: _clean_text, which collapses whitespace twice (after the removal of
\* glyph placeholders and again after the removal of header noise), returns
\* for every text what the specified three-pass pipeline returns, in which
\* whitespace is collapsed and stripped only once, as the last step.
C21_CleanRefinesThreePass ==
    op = "_clean_text" => cleaned[1] = ThreePassClean(text)

\* C21 witness: _clean_text was called on a text in which a line break and
\* a glyph placeholder follow a letter, so that the first collapse changes
\* the text handed to the header removal.
C21_Witness ==
    /\ op = "_clean_text"
    /\ text = <<"a", "\n", "(", "c", "i", "d", ":", "1", ")">>
    /\ _remove_cid_codes(text) /= SubCid(text, 1)
    /\ cleaned[1] = <<"a">>

\* C22: the block extract_with_pdfplumber produces for page i depends only
\* on page i's own text, tables, image count and page number: it is the
\* block of that page taken alone, whatever the other pages hold and
\* whatever range is requested; two pages of a document that hold the same
\* content get the same parts; the table labels of every block start at 1.
C22_BlocksPerPage ==
    (op = "done" /\ method = "pdfplumber") =>
        /\ \A i \in 1..Len(ret) :
              /\ ret[i].page_num \in 1..Len(doc)
              /\ <<ret[i]>> = PdfplumberBlocks(doc[ret[i].page_num], ret[i].page_num,
                                               extract_tables)
              /\ LET labels == ValuesOfKind(ret[i].parts, "table_label")
                 IN  labels = [k \in 1..Len(labels) |-> k]
        /\ \A i \in 1..Len(ret) : \A j \in 1..Len(ret) :
              doc[ret[i].page_num] = doc[ret[j].page_num] => ret[i].parts = ret[j].parts

\* C22 witness: extract_with_pdfplumber, tables enabled, ran over a text
\* page between two pages of tables: the first and the third block hold
\* the same parts, their table labelled 1.
C22_Witness ==
    /\ op = "done" /\ method = "pdfplumber" /\ extract_tables
    /\ doc = <<TablePage, TextPage, TablePage>>
    /\ Len(ret) = 3
    /\ ret[1].parts = ret[3].parts
    /\ ValuesOfKind(ret[3].parts, "table_label") = <<1>>


(***************************************************************************)
(* PDFExtractor.extract: the choice of the backend.  A backend call either *)
(* raises (any Exception of the library: env holds the backends that do)   *)
(* or returns the blocks of the pages of the range; the joined string is   *)
(* blank exactly when there is no block, every block starting with         *)
(* "## Page".  calls logs the backends invoked, in order.                  *)
(***************************************************************************)
\* the blocks of pages i+1 .. end under one backend, as the loops append them
RECURSIVE BlocksFrom(_, _, _, _)
BlocksFrom(backend, d, i, end) ==
    IF i >= end THEN <<>>
    ELSE (IF backend = "pymupdf"
          THEN PymupdfBlocks(d[i + 1], i + 1)
          ELSE PdfplumberBlocks(d[i + 1], i + 1, TRUE)) \o BlocksFrom(backend, d, i + 1, end)

\* extract_with_pymupdf / extract_with_pdfplumber(page_range=page_range)
ExtractWith(backend, d, range) ==
    LET ix == _get_page_indices(Len(d), range)
    IN  BlocksFrom(backend, d, ix[1], ix[2])

\* the exception a backend lets out
BackendError(backend) == [type |-> "Exception", message |-> backend]

\* the order of the two try blocks of method == "auto"
AutoOrder == <<"pymupdf", "pdfplumber">>

\* the values of method: the three known ones and an unknown one
Methods == {"auto", "pymupdf", "pdfplumber", "invalid_method"}

\* the ranges handed to extract: none, or a pair of page numbers
ExtractRanges == {NoRange} \cup ((1..3) \X (1..3))

InitExtract ==
    /\ op = "extract"
    /\ pdf_path = "pdf"
    /\ doc \in Docs(2)
    /\ page_range \in ExtractRanges
    /\ method \in Methods
    /\ env \in SUBSET {"pymupdf", "pdfplumber"}
    /\ calls = <<>> /\ raised = NoException /\ ret = Idle
    /\ extract_tables = TRUE
    /\ page_idx = 0 /\ text_content = <<>> /\ visited = <<>>
    /\ total_pages = 0 /\ indices = Idle
    /\ text = Idle /\ cleaned = Idle /\ table = Idle /\ stats = Idle
    /\ num_columns = 0
    /\ args = Idle /\ exit_status = Idle /\ llm = Idle
    /\ attempt = 0 /\ full_response = Idle

\* one backend call of extract.  method == "auto": the first try block at
\* op = "extract", the second at op = "fallback"; a non-blank text is
\* returned, an exception of the backend is printed, and that print may
\* raise out of the except clause; after the second block extract raises.
\* method == "pymupdf" / "pdfplumber": the backend's result or exception
\* as it is.  text holds what the backend returned.
CallBackend ==
    /\ op \in {"extract", "fallback"}
    /\ method \in {"auto", "pymupdf", "pdfplumber"}
    /\ \E announced \in {"printed", "print_raises"} :
          LET backend == IF method /= "auto" THEN method
                         ELSE IF op = "extract" THEN AutoOrder[1] ELSE AutoOrder[2]
          IN  /\ calls' = Append(calls, backend)
              /\ text' = IF backend \in env THEN text
                         ELSE ExtractWith(backend, doc, page_range)
              /\ IF backend \notin env /\ (method /= "auto" \/ text' /= <<>>)
                 THEN /\ ret' = text'
                      /\ op' = "returned"
                      /\ UNCHANGED raised
                 ELSE IF method /= "auto"
                 THEN /\ raised' = BackendError(backend)
                      /\ op' = "raised"
                      /\ UNCHANGED ret
                 ELSE IF backend \in env /\ announced = "print_raises"
                 THEN /\ raised' = PrintRaised("extraction failed")
                      /\ op' = "raised"
                      /\ UNCHANGED ret
                 ELSE IF op = "extract"
                 THEN /\ op' = "fallback"
                      /\ UNCHANGED <<ret, raised>>
                 ELSE /\ raised' = ValueError("Failed to extract text with all methods")
                      /\ op' = "raised"
                      /\ UNCHANGED ret
    /\ UNCHANGED <<retryVars, extractVars, page_range, env, total_pages, indices, cleaned,
                   table, stats, num_columns, args, exit_status, llm>>

\* the else branch: no backend is called; the message is the f-string's
\* literal part followed by the value of method
ExtractUnknown ==
    /\ op = "extract"
    /\ method \notin {"auto", "pymupdf", "pdfplumber"}
    /\ raised' = ValueError(<<"Unknown extraction method: ", method>>)
    /\ op' = "raised"
    /\ UNCHANGED <<retryVars, extractVars, page_range, env, calls, ret, total_pages, indices, text,
                   cleaned, table, stats, num_columns, args, exit_status, llm>>

NextExtract == CallBackend \/ ExtractUnknown

SpecExtract == InitExtract /\ [][NextExtract]_vars

\* the backend raises or returns a blank text
FailsOrBlank(backend) ==
    backend \in env \/ ExtractWith(backend, doc, page_range) = <<>>

\* the range starts after the last page of the document
RangeBeyondDocument ==
    page_range /= NoRange /\ page_range[1] > Len(doc) /\ page_range[1] <= page_range[2]

\* C23: extract(method='auto') calls PyMuPDF first and pdfplumber only if
\* PyMuPDF raised or returned a blank text; it returns the first non-blank
\* text, lets no backend exception out, and when both backends fail or are
\* blank (a range wholly beyond the document included) raises ValueError
\* 'Failed to extract text with all methods'; an unknown method raises
\* ValueError 'Unknown extraction method' and no backend is called.
C23_AutoFallback ==
    /\ (method = "auto" /\ op /= "extract") =>
          /\ calls[1] = "pymupdf"
          /\ Len(calls) = 2 => (calls[2] = "pdfplumber" /\ FailsOrBlank("pymupdf"))
          /\ Len(calls) <= 2
          /\ op = "fallback" => (Len(calls) = 1 /\ FailsOrBlank("pymupdf"))
          /\ op = "returned" =>
                /\ ret /= <<>>
                /\ raised = NoException
                /\ ret = ExtractWith(calls[Len(calls)], doc, page_range)
                /\ calls[Len(calls)] \notin env
          /\ op = "raised" =>
                /\ raised = ValueError("Failed to extract text with all methods")
                /\ calls = <<"pymupdf", "pdfplumber">>
                /\ FailsOrBlank("pymupdf") /\ FailsOrBlank("pdfplumber")
          /\ RangeBeyondDocument => op \in {"fallback", "raised"}
          /\ op \in {"fallback", "returned", "raised"}
    /\ (method = "invalid_method" /\ op /= "extract") =>
          /\ op = "raised"
          /\ raised.type = "ValueError"
          /\ raised.message[1] = "Unknown extraction method: "
          /\ calls = <<>>

(***************************************************************************)
(* AnthropicProvider.generate: the retry loop around the streamed request. *)
(* One attempt streams some chunks of text and then ends, or raises: an    *)
(* APIStatusError with some text, or another exception of the SDK.  calls  *)
(* logs every request with its chunks and its exception, and every sleep.  *)
(***************************************************************************)
max_retries == 3
base_delay == 30

MaxChunks == 2

Uppercase == <<"A", "B", "C", "D", "E", "F", "G", "H", "I", "J", "K", "L", "M",
               "N", "O", "P", "Q", "R", "S", "T", "U", "V", "W", "X", "Y", "Z">>
Lowercase == <<"a", "b", "c", "d", "e", "f", "g", "h", "i", "j", "k", "l", "m",
               "n", "o", "p", "q", "r", "s", "t", "u", "v", "w", "x", "y", "z">>

\* the letters beyond ASCII that str.lower() turns into one other letter
\* beyond ASCII, each mapped to that letter: every code point first,
\* first + step, ..., last of a range <<first, last, step, offset>> becomes
\* the code point offset further
ToLower ==
    LET ranges ==
    << <<192, 214, 1, 32>>, <<216, 222, 1, 32>>, <<256, 302, 2, 1>>,
       <<306, 310, 2, 1>>, <<313, 327, 2, 1>>, <<330, 374, 2, 1>>,
       <<376, 376, 1, -121>>, <<377, 381, 2, 1>>, <<385, 385, 1, 210>>,
       <<386, 388, 2, 1>>, <<390, 390, 1, 206>>, <<391, 391, 1, 1>>,
       <<393, 394, 1, 205>>, <<395, 395, 1, 1>>, <<398, 398, 1, 79>>,
       <<399, 399, 1, 202>>, <<400, 400, 1, 203>>, <<401, 401, 1, 1>>,
       <<403, 403, 1, 205>>, <<404, 404, 1, 207>>, <<406, 406, 1, 211>>,
       <<407, 407, 1, 209>>, <<408, 408, 1, 1>>, <<412, 412, 1, 211>>,
       <<413, 413, 1, 213>>, <<415, 415, 1, 214>>, <<416, 420, 2, 1>>,
       <<422, 422, 1, 218>>, <<423, 423, 1, 1>>, <<425, 425, 1, 218>>,
       <<428, 428, 1, 1>>, <<430, 430, 1, 218>>, <<431, 431, 1, 1>>,
       <<433, 434, 1, 217>>, <<435, 437, 2, 1>>, <<439, 439, 1, 219>>,
       <<440, 440, 1, 1>>, <<444, 444, 1, 1>>, <<452, 452, 1, 2>>,
       <<453, 453, 1, 1>>, <<455, 455, 1, 2>>, <<456, 456, 1, 1>>,
       <<458, 458, 1, 2>>, <<459, 475, 2, 1>>, <<478, 494, 2, 1>>,
       <<497, 497, 1, 2>>, <<498, 500, 2, 1>>, <<502, 502, 1, -97>>,
       <<503, 503, 1, -56>>, <<504, 542, 2, 1>>, <<544, 544, 1, -130>>,
       <<546, 562, 2, 1>>, <<570, 570, 1, 10795>>, <<571, 571, 1, 1>>,
       <<573, 573, 1, -163>>, <<574, 574, 1, 10792>>, <<577, 577, 1, 1>>,
       <<579, 579, 1, -195>>, <<580, 580, 1, 69>>, <<581, 581, 1, 71>>,
       <<582, 590, 2, 1>>, <<880, 882, 2, 1>>, <<886, 886, 1, 1>>,
       <<895, 895, 1, 116>>, <<902, 902, 1, 38>>, <<904, 906, 1, 37>>,
       <<908, 908, 1, 64>>, <<910, 911, 1, 63>>, <<913, 929, 1, 32>>,
       <<931, 939, 1, 32>>, <<975, 975, 1, 8>>, <<984, 1006, 2, 1>>,
       <<1012, 1012, 1, -60>>, <<1015, 1015, 1, 1>>, <<1017, 1017, 1, -7>>,
       <<1018, 1018, 1, 1>>, <<1021, 1023, 1, -130>>, <<1024, 1039, 1, 80>>,
       <<1040, 1071, 1, 32>>, <<1120, 1152, 2, 1>>, <<1162, 1214, 2, 1>>,
       <<1216, 1216, 1, 15>>, <<1217, 1229, 2, 1>>, <<1232, 1326, 2, 1>>,
       <<1329, 1366, 1, 48>>, <<4256, 4293, 1, 7264>>, <<4295, 4295, 1, 7264>>,
       <<4301, 4301, 1, 7264>>, <<5024, 5103, 1, 38864>>, <<5104, 5109, 1, 8>>,
       <<7312, 7354, 1, -3008>>, <<7357, 7359, 1, -3008>>,
       <<7680, 7828, 2, 1>>, <<7838, 7838, 1, -7615>>, <<7840, 7934, 2, 1>>,
       <<7944, 7951, 1, -8>>, <<7960, 7965, 1, -8>>, <<7976, 7983, 1, -8>>,
       <<7992, 7999, 1, -8>>, <<8008, 8013, 1, -8>>, <<8025, 8031, 2, -8>>,
       <<8040, 8047, 1, -8>>, <<8072, 8079, 1, -8>>, <<8088, 8095, 1, -8>>,
       <<8104, 8111, 1, -8>>, <<8120, 8121, 1, -8>>, <<8122, 8123, 1, -74>>,
       <<8124, 8124, 1, -9>>, <<8136, 8139, 1, -86>>, <<8140, 8140, 1, -9>>,
       <<8152, 8153, 1, -8>>, <<8154, 8155, 1, -100>>, <<8168, 8169, 1, -8>>,
       <<8170, 8171, 1, -112>>, <<8172, 8172, 1, -7>>, <<8184, 8185, 1, -128>>,
       <<8186, 8187, 1, -126>>, <<8188, 8188, 1, -9>>,
       <<8486, 8486, 1, -7517>>, <<8491, 8491, 1, -8262>>,
       <<8498, 8498, 1, 28>>, <<8544, 8559, 1, 16>>, <<8579, 8579, 1, 1>>,
       <<9398, 9423, 1, 26>>, <<11264, 11311, 1, 48>>, <<11360, 11360, 1, 1>>,
       <<11362, 11362, 1, -10743>>, <<11363, 11363, 1, -3814>>,
       <<11364, 11364, 1, -10727>>, <<11367, 11371, 2, 1>>,
       <<11373, 11373, 1, -10780>>, <<11374, 11374, 1, -10749>>,
       <<11375, 11375, 1, -10783>>, <<11376, 11376, 1, -10782>>,
       <<11378, 11378, 1, 1>>, <<11381, 11381, 1, 1>>,
       <<11390, 11391, 1, -10815>>, <<11392, 11490, 2, 1>>,
       <<11499, 11501, 2, 1>>, <<11506, 11506, 1, 1>>, <<42560, 42604, 2, 1>>,
       <<42624, 42650, 2, 1>>, <<42786, 42798, 2, 1>>, <<42802, 42862, 2, 1>>,
       <<42873, 42875, 2, 1>>, <<42877, 42877, 1, -35332>>,
       <<42878, 42886, 2, 1>>, <<42891, 42891, 1, 1>>,
       <<42893, 42893, 1, -42280>>, <<42896, 42898, 2, 1>>,
       <<42902, 42920, 2, 1>>, <<42922, 42922, 1, -42308>>,
       <<42923, 42923, 1, -42319>>, <<42924, 42924, 1, -42315>>,
       <<42925, 42925, 1, -42305>>, <<42926, 42926, 1, -42308>>,
       <<42928, 42928, 1, -42258>>, <<42929, 42929, 1, -42282>>,
       <<42930, 42930, 1, -42261>>, <<42931, 42931, 1, 928>>,
       <<42932, 42946, 2, 1>>, <<42948, 42948, 1, -48>>,
       <<42949, 42949, 1, -42307>>, <<42950, 42950, 1, -35384>>,
       <<42951, 42953, 2, 1>>, <<42960, 42960, 1, 1>>, <<42966, 42968, 2, 1>>,
       <<42997, 42997, 1, 1>>, <<65313, 65338, 1, 32>>,
       <<66560, 66599, 1, 40>>, <<66736, 66771, 1, 40>>,
       <<66928, 66964, 2, 39>>, <<66929, 66937, 2, 39>>,
       <<66941, 66953, 2, 39>>, <<66957, 66961, 2, 39>>,
       <<66965, 66965, 1, 39>>, <<68736, 68786, 1, 64>>,
       <<71840, 71871, 1, 32>>, <<93760, 93791, 1, 32>>,
       <<125184, 125217, 1, 34>> >>
        pairs ==
            UNION {{<<Chr(n), Chr(n + ranges[i][4])>> :
                       n \in {m \in ranges[i][1]..ranges[i][2] :
                                 (m - ranges[i][1]) % ranges[i][3] = 0}} :
                   i \in 1..Len(ranges)}
    IN  [c \in {pair[1] : pair \in pairs} |->
            (CHOOSE pair \in pairs : pair[1] = c)[2]]

\* the characters the scan around a capital sigma skips (case-ignorable);
\* Chr(96) is the grave accent
CaseIgnorable ==
    {"'", ".", ":", "^", Chr(96)} \cup Chars(
    << <<168, 168>>, <<173, 173>>, <<175, 175>>, <<180, 180>>, <<183, 184>>,
       <<688, 879>>, <<884, 885>>, <<890, 890>>, <<900, 901>>, <<903, 903>>,
       <<1155, 1161>>, <<1369, 1369>>, <<1375, 1375>>, <<1425, 1469>>,
       <<1471, 1471>>, <<1473, 1474>>, <<1476, 1477>>, <<1479, 1479>>,
       <<1524, 1524>>, <<1536, 1541>>, <<1552, 1562>>, <<1564, 1564>>,
       <<1600, 1600>>, <<1611, 1631>>, <<1648, 1648>>, <<1750, 1757>>,
       <<1759, 1768>>, <<1770, 1773>>, <<1807, 1807>>, <<1809, 1809>>,
       <<1840, 1866>>, <<1958, 1968>>, <<2027, 2037>>, <<2042, 2042>>,
       <<2045, 2045>>, <<2070, 2093>>, <<2137, 2139>>, <<2184, 2184>>,
       <<2192, 2193>>, <<2200, 2207>>, <<2249, 2306>>, <<2362, 2362>>,
       <<2364, 2364>>, <<2369, 2376>>, <<2381, 2381>>, <<2385, 2391>>,
       <<2402, 2403>>, <<2417, 2417>>, <<2433, 2433>>, <<2492, 2492>>,
       <<2497, 2500>>, <<2509, 2509>>, <<2530, 2531>>, <<2558, 2558>>,
       <<2561, 2562>>, <<2620, 2620>>, <<2625, 2626>>, <<2631, 2632>>,
       <<2635, 2637>>, <<2641, 2641>>, <<2672, 2673>>, <<2677, 2677>>,
       <<2689, 2690>>, <<2748, 2748>>, <<2753, 2757>>, <<2759, 2760>>,
       <<2765, 2765>>, <<2786, 2787>>, <<2810, 2815>>, <<2817, 2817>>,
       <<2876, 2876>>, <<2879, 2879>>, <<2881, 2884>>, <<2893, 2893>>,
       <<2901, 2902>>, <<2914, 2915>>, <<2946, 2946>>, <<3008, 3008>>,
       <<3021, 3021>>, <<3072, 3072>>, <<3076, 3076>>, <<3132, 3132>>,
       <<3134, 3136>>, <<3142, 3144>>, <<3146, 3149>>, <<3157, 3158>>,
       <<3170, 3171>>, <<3201, 3201>>, <<3260, 3260>>, <<3263, 3263>>,
       <<3270, 3270>>, <<3276, 3277>>, <<3298, 3299>>, <<3328, 3329>>,
       <<3387, 3388>>, <<3393, 3396>>, <<3405, 3405>>, <<3426, 3427>>,
       <<3457, 3457>>, <<3530, 3530>>, <<3538, 3540>>, <<3542, 3542>>,
       <<3633, 3633>>, <<3636, 3642>>, <<3654, 3662>>, <<3761, 3761>>,
       <<3764, 3772>>, <<3782, 3782>>, <<3784, 3789>>, <<3864, 3865>>,
       <<3893, 3893>>, <<3895, 3895>>, <<3897, 3897>>, <<3953, 3966>>,
       <<3968, 3972>>, <<3974, 3975>>, <<3981, 3991>>, <<3993, 4028>>,
       <<4038, 4038>>, <<4141, 4144>>, <<4146, 4151>>, <<4153, 4154>>,
       <<4157, 4158>>, <<4184, 4185>>, <<4190, 4192>>, <<4209, 4212>>,
       <<4226, 4226>>, <<4229, 4230>>, <<4237, 4237>>, <<4253, 4253>>,
       <<4348, 4348>>, <<4957, 4959>>, <<5906, 5908>>, <<5938, 5939>>,
       <<5970, 5971>>, <<6002, 6003>>, <<6068, 6069>>, <<6071, 6077>>,
       <<6086, 6086>>, <<6089, 6099>>, <<6103, 6103>>, <<6109, 6109>>,
       <<6155, 6159>>, <<6211, 6211>>, <<6277, 6278>>, <<6313, 6313>>,
       <<6432, 6434>>, <<6439, 6440>>, <<6450, 6450>>, <<6457, 6459>>,
       <<6679, 6680>>, <<6683, 6683>>, <<6742, 6742>>, <<6744, 6750>>,
       <<6752, 6752>>, <<6754, 6754>>, <<6757, 6764>>, <<6771, 6780>>,
       <<6783, 6783>>, <<6823, 6823>>, <<6832, 6862>>, <<6912, 6915>>,
       <<6964, 6964>>, <<6966, 6970>>, <<6972, 6972>>, <<6978, 6978>>,
       <<7019, 7027>>, <<7040, 7041>>, <<7074, 7077>>, <<7080, 7081>>,
       <<7083, 7085>>, <<7142, 7142>>, <<7144, 7145>>, <<7149, 7149>>,
       <<7151, 7153>>, <<7212, 7219>>, <<7222, 7223>>, <<7288, 7293>>,
       <<7376, 7378>>, <<7380, 7392>>, <<7394, 7400>>, <<7405, 7405>>,
       <<7412, 7412>>, <<7416, 7417>>, <<7468, 7530>>, <<7544, 7544>>,
       <<7579, 7679>>, <<8125, 8125>>, <<8127, 8129>>, <<8141, 8143>>,
       <<8157, 8159>>, <<8173, 8175>>, <<8189, 8190>>, <<8203, 8207>>,
       <<8216, 8217>>, <<8228, 8228>>, <<8231, 8231>>, <<8234, 8238>>,
       <<8288, 8292>>, <<8294, 8303>>, <<8305, 8305>>, <<8319, 8319>>,
       <<8336, 8348>>, <<8400, 8432>>, <<11388, 11389>>, <<11503, 11505>>,
       <<11631, 11631>>, <<11647, 11647>>, <<11744, 11775>>, <<11823, 11823>>,
       <<12293, 12293>>, <<12330, 12333>>, <<12337, 12341>>, <<12347, 12347>>,
       <<12441, 12446>>, <<12540, 12542>>, <<40981, 40981>>, <<42232, 42237>>,
       <<42508, 42508>>, <<42607, 42610>>, <<42612, 42621>>, <<42623, 42623>>,
       <<42652, 42655>>, <<42736, 42737>>, <<42752, 42785>>, <<42864, 42864>>,
       <<42888, 42890>>, <<42994, 42996>>, <<43000, 43001>>, <<43010, 43010>>,
       <<43014, 43014>>, <<43019, 43019>>, <<43045, 43046>>, <<43052, 43052>>,
       <<43204, 43205>>, <<43232, 43249>>, <<43263, 43263>>, <<43302, 43309>>,
       <<43335, 43345>>, <<43392, 43394>>, <<43443, 43443>>, <<43446, 43449>>,
       <<43452, 43453>>, <<43471, 43471>>, <<43493, 43494>>, <<43561, 43566>>,
       <<43569, 43570>>, <<43573, 43574>>, <<43587, 43587>>, <<43596, 43596>>,
       <<43632, 43632>>, <<43644, 43644>>, <<43696, 43696>>, <<43698, 43700>>,
       <<43703, 43704>>, <<43710, 43711>>, <<43713, 43713>>, <<43741, 43741>>,
       <<43756, 43757>>, <<43763, 43764>>, <<43766, 43766>>, <<43867, 43871>>,
       <<43881, 43883>>, <<44005, 44005>>, <<44008, 44008>>, <<44013, 44013>>,
       <<64286, 64286>>, <<64434, 64450>>, <<65024, 65039>>, <<65043, 65043>>,
       <<65056, 65071>>, <<65106, 65106>>, <<65109, 65109>>, <<65279, 65279>>,
       <<65287, 65287>>, <<65294, 65294>>, <<65306, 65306>>, <<65342, 65342>>,
       <<65344, 65344>>, <<65392, 65392>>, <<65438, 65439>>, <<65507, 65507>>,
       <<65529, 65531>>, <<66045, 66045>>, <<66272, 66272>>, <<66422, 66426>>,
       <<67456, 67461>>, <<67463, 67504>>, <<67506, 67514>>, <<68097, 68099>>,
       <<68101, 68102>>, <<68108, 68111>>, <<68152, 68154>>, <<68159, 68159>>,
       <<68325, 68326>>, <<68900, 68903>>, <<69291, 69292>>, <<69446, 69456>>,
       <<69506, 69509>>, <<69633, 69633>>, <<69688, 69702>>, <<69744, 69744>>,
       <<69747, 69748>>, <<69759, 69761>>, <<69811, 69814>>, <<69817, 69818>>,
       <<69821, 69821>>, <<69826, 69826>>, <<69837, 69837>>, <<69888, 69890>>,
       <<69927, 69931>>, <<69933, 69940>>, <<70003, 70003>>, <<70016, 70017>>,
       <<70070, 70078>>, <<70089, 70092>>, <<70095, 70095>>, <<70191, 70193>>,
       <<70196, 70196>>, <<70198, 70199>>, <<70206, 70206>>, <<70367, 70367>>,
       <<70371, 70378>>, <<70400, 70401>>, <<70459, 70460>>, <<70464, 70464>>,
       <<70502, 70508>>, <<70512, 70516>>, <<70712, 70719>>, <<70722, 70724>>,
       <<70726, 70726>>, <<70750, 70750>>, <<70835, 70840>>, <<70842, 70842>>,
       <<70847, 70848>>, <<70850, 70851>>, <<71090, 71093>>, <<71100, 71101>>,
       <<71103, 71104>>, <<71132, 71133>>, <<71219, 71226>>, <<71229, 71229>>,
       <<71231, 71232>>, <<71339, 71339>>, <<71341, 71341>>, <<71344, 71349>>,
       <<71351, 71351>>, <<71453, 71455>>, <<71458, 71461>>, <<71463, 71467>>,
       <<71727, 71735>>, <<71737, 71738>>, <<71995, 71996>>, <<71998, 71998>>,
       <<72003, 72003>>, <<72148, 72151>>, <<72154, 72155>>, <<72160, 72160>>,
       <<72193, 72202>>, <<72243, 72248>>, <<72251, 72254>>, <<72263, 72263>>,
       <<72273, 72278>>, <<72281, 72283>>, <<72330, 72342>>, <<72344, 72345>>,
       <<72752, 72758>>, <<72760, 72765>>, <<72767, 72767>>, <<72850, 72871>>,
       <<72874, 72880>>, <<72882, 72883>>, <<72885, 72886>>, <<73009, 73014>>,
       <<73018, 73018>>, <<73020, 73021>>, <<73023, 73029>>, <<73031, 73031>>,
       <<73104, 73105>>, <<73109, 73109>>, <<73111, 73111>>, <<73459, 73460>>,
       <<78896, 78904>>, <<92912, 92916>>, <<92976, 92982>>, <<92992, 92995>>,
       <<94031, 94031>>, <<94095, 94111>>, <<94176, 94177>>, <<94179, 94180>>,
       <<110576, 110579>>, <<110581, 110587>>, <<110589, 110590>>,
       <<113821, 113822>>, <<113824, 113827>>, <<118528, 118573>>,
       <<118576, 118598>>, <<119143, 119145>>, <<119155, 119170>>,
       <<119173, 119179>>, <<119210, 119213>>, <<119362, 119364>>,
       <<121344, 121398>>, <<121403, 121452>>, <<121461, 121461>>,
       <<121476, 121476>>, <<121499, 121503>>, <<121505, 121519>>,
       <<122880, 122886>>, <<122888, 122904>>, <<122907, 122913>>,
       <<122915, 122916>>, <<122918, 122922>>, <<123184, 123197>>,
       <<123566, 123566>>, <<123628, 123631>>, <<125136, 125142>>,
       <<125252, 125259>>, <<127995, 127999>>, <<917505, 917505>>,
       <<917536, 917631>>, <<917760, 917999>> >>)

\* the cased characters among those the scan does not skip
Cased ==
    {Uppercase[k] : k \in 1..Len(Uppercase)} \cup
    {Lowercase[k] : k \in 1..Len(Lowercase)} \cup Chars(
    << <<170, 170>>, <<181, 181>>, <<186, 186>>, <<192, 214>>, <<216, 246>>,
       <<248, 442>>, <<444, 447>>, <<452, 659>>, <<661, 687>>, <<880, 883>>,
       <<886, 887>>, <<891, 893>>, <<895, 895>>, <<902, 902>>, <<904, 906>>,
       <<908, 908>>, <<910, 929>>, <<931, 1013>>, <<1015, 1153>>,
       <<1162, 1327>>, <<1329, 1366>>, <<1376, 1416>>, <<4256, 4293>>,
       <<4295, 4295>>, <<4301, 4301>>, <<4304, 4346>>, <<4349, 4351>>,
       <<5024, 5109>>, <<5112, 5117>>, <<7296, 7304>>, <<7312, 7354>>,
       <<7357, 7359>>, <<7424, 7467>>, <<7531, 7543>>, <<7545, 7578>>,
       <<7680, 7957>>, <<7960, 7965>>, <<7968, 8005>>, <<8008, 8013>>,
       <<8016, 8023>>, <<8025, 8025>>, <<8027, 8027>>, <<8029, 8029>>,
       <<8031, 8061>>, <<8064, 8116>>, <<8118, 8124>>, <<8126, 8126>>,
       <<8130, 8132>>, <<8134, 8140>>, <<8144, 8147>>, <<8150, 8155>>,
       <<8160, 8172>>, <<8178, 8180>>, <<8182, 8188>>, <<8450, 8450>>,
       <<8455, 8455>>, <<8458, 8467>>, <<8469, 8469>>, <<8473, 8477>>,
       <<8484, 8484>>, <<8486, 8486>>, <<8488, 8488>>, <<8490, 8493>>,
       <<8495, 8500>>, <<8505, 8505>>, <<8508, 8511>>, <<8517, 8521>>,
       <<8526, 8526>>, <<8544, 8575>>, <<8579, 8580>>, <<9398, 9449>>,
       <<11264, 11387>>, <<11390, 11492>>, <<11499, 11502>>, <<11506, 11507>>,
       <<11520, 11557>>, <<11559, 11559>>, <<11565, 11565>>, <<42560, 42605>>,
       <<42624, 42651>>, <<42786, 42863>>, <<42865, 42887>>, <<42891, 42894>>,
       <<42896, 42954>>, <<42960, 42961>>, <<42963, 42963>>, <<42965, 42969>>,
       <<42997, 42998>>, <<43002, 43002>>, <<43824, 43866>>, <<43872, 43880>>,
       <<43888, 43967>>, <<64256, 64262>>, <<64275, 64279>>, <<65313, 65338>>,
       <<65345, 65370>>, <<66560, 66639>>, <<66736, 66771>>, <<66776, 66811>>,
       <<66928, 66938>>, <<66940, 66954>>, <<66956, 66962>>, <<66964, 66965>>,
       <<66967, 66977>>, <<66979, 66993>>, <<66995, 67001>>, <<67003, 67004>>,
       <<68736, 68786>>, <<68800, 68850>>, <<71840, 71903>>, <<93760, 93823>>,
       <<119808, 119892>>, <<119894, 119964>>, <<119966, 119967>>,
       <<119970, 119970>>, <<119973, 119974>>, <<119977, 119980>>,
       <<119982, 119993>>, <<119995, 119995>>, <<119997, 120003>>,
       <<120005, 120069>>, <<120071, 120074>>, <<120077, 120084>>,
       <<120086, 120092>>, <<120094, 120121>>, <<120123, 120126>>,
       <<120128, 120132>>, <<120134, 120134>>, <<120138, 120144>>,
       <<120146, 120485>>, <<120488, 120512>>, <<120514, 120538>>,
       <<120540, 120570>>, <<120572, 120596>>, <<120598, 120628>>,
       <<120630, 120654>>, <<120656, 120686>>, <<120688, 120712>>,
       <<120714, 120744>>, <<120746, 120770>>, <<120772, 120779>>,
       <<122624, 122633>>, <<122635, 122654>>, <<125184, 125251>>,
       <<127280, 127305>>, <<127312, 127337>>, <<127344, 127369>> >>)

\* what str.lower() makes of the capital sigma s[i]: the final sigma when
\* the nearest character before it that is not skipped is cased and the
\* nearest one after it, if any, is not; else the small sigma
handle_capital_sigma(s, i) ==
    LET before == {j \in 1..(i - 1) : s[j] \notin CaseIgnorable}
        after  == {j \in (i + 1)..Len(s) : s[j] \notin CaseIgnorable}
        final_sigma ==
            /\ before /= {}
            /\ s[CHOOSE j \in before : \A k \in before : k <= j] \in Cased
            /\ \/ after = {}
               \/ s[CHOOSE j \in after : \A k \in after : j <= k] \notin Cased
    IN  IF final_sigma THEN Chr(962) ELSE Chr(963)

\* what str.lower() makes of the character s[i]: one character, or two for
\* the capital I with dot above (i and the combining dot above); the
\* Kelvin sign becomes the ASCII k
lower_ucs4(s, i) ==
    LET c == s[i]
    IN  IF c = Chr(931) THEN <<handle_capital_sigma(s, i)>>
        ELSE IF c = Chr(304) THEN <<"i", Chr(775)>>
        ELSE IF c = Chr(8490) THEN <<"k">>
        ELSE IF \E k \in 1..Len(Uppercase) : Uppercase[k] = c
        THEN <<Lowercase[CHOOSE k \in 1..Len(Uppercase) : Uppercase[k] = c]>>
        ELSE IF c \in DOMAIN ToLower THEN <<ToLower[c]>>
        ELSE <<c>>

\* str.lower()
Lower(s) == Join([i \in 1..Len(s) |-> lower_ucs4(s, i)], <<>>)

\* sub in s
Contains(sub, s) ==
    \E i \in 1..(Len(s) - Len(sub) + 1) : HasPrefixAt(s, i, sub)

\* the literal "overloaded"
OverloadedTag == <<"o", "v", "e", "r", "l", "o", "a", "d", "e", "d">>

\* an APIStatusError whose str() is message
APIStatusError(message) == [type |-> "APIStatusError", message |-> message]

\* an exception of the SDK that is no APIStatusError
APIConnectionError == [type |-> "APIConnectionError", message |-> <<"x">>]

\* the texts of the status errors of the model
StatusTexts ==
    { <<"5", "2", "9", " ">> \o OverloadedTag \o <<"_", "e", "r", "r", "o", "r">>,
      <<"O", "v", "e", "r", "l", "o", "a", "d", "e", "d">>,
      <<"O", "V", "E", "R", "L", "O", "A", "D", "E", "D">>,
      <<Chr(214), "V", "E", "R", "L", "O", "A", "D", "E", "D">>,
      <<"o", "v", "e", "r", "l", "o", "a", "d">>,
      <<"4", "2", "9">> }

\* what ends the stream of one attempt: nothing, or an exception
StreamEnds == {NoException, APIConnectionError} \cup {APIStatusError(m) : m \in StatusTexts}

\* the chunks text_stream yields in one attempt
RECURSIVE ChunkSeqs(_)
ChunkSeqs(n) ==
    IF n = 0 THEN {<<>>}
    ELSE LET S == ChunkSeqs(n - 1) IN S \cup {Append(c, x) : c \in S, x \in {"a", "b"}}

\* the except clause retries whatever the text of the APIStatusError
ShouldRetryAnyText(e, n) ==
    e.type = "APIStatusError" /\ n < max_retries - 1

\* "overloaded" in str(e).lower() and attempt < max_retries - 1
ShouldRetry(e, n) ==
    /\ e.type = "APIStatusError"
    /\ Contains(OverloadedTag, Lower(e.message))
    /\ n < max_retries - 1

InitGenerate ==
    /\ op = "generate"
    /\ attempt = 0 /\ full_response = Idle
    /\ env = AllKeysSet
    /\ llm = AnthropicProvider(None, AllKeysSet).llm
    /\ calls = <<>> /\ raised = NoException /\ ret = Idle
    /\ args = Idle /\ exit_status = Idle
    /\ text = Idle /\ stats = Idle /\ num_columns = 0 /\ cleaned = Idle
    /\ table = Idle /\ total_pages = 0 /\ page_range = NoRange /\ indices = Idle
    /\ NoExtraction

\* one iteration of `for attempt in range(max_retries)`; the print that
\* announces a retry may raise out of the except clause
Attempt ==
    /\ op = "generate"
    /\ attempt \in 0..(max_retries - 1)
    /\ \E chunks \in ChunkSeqs(MaxChunks), e \in StreamEnds :
          LET request == [fn |-> "stream", arg |-> chunks, raised |-> e]
              delay == base_delay * (2 ^ attempt)
          IN  /\ full_response' = <<>> \o chunks
              /\ IF e = NoException
                 THEN /\ ret' = <<>> \o chunks
                      /\ op' = "returned"
                      /\ calls' = Append(calls, request)
                      /\ UNCHANGED <<attempt, raised>>
                 ELSE IF ShouldRetry(e, attempt)
                 THEN \E announced \in {"printed", "print_raises"} :
                         IF announced = "printed"
                         THEN /\ calls' = calls \o <<request,
                                  [fn |-> "sleep", arg |-> delay, raised |-> NoException]>>
                              /\ attempt' = attempt + 1
                              /\ UNCHANGED <<op, ret, raised>>
                         ELSE /\ raised' = PrintRaised("API overloaded")
                              /\ op' = "raised"
                              /\ calls' = Append(calls, request)
                              /\ UNCHANGED <<attempt, ret>>
                 ELSE /\ raised' = e
                      /\ op' = "raised"
                      /\ calls' = Append(calls, request)
                      /\ UNCHANGED <<attempt, ret>>
    /\ UNCHANGED <<extractVars, args, exit_status, env, llm, total_pages, page_range,
                   indices, text, cleaned, table, stats, num_columns>>

NextGenerate == Attempt

SpecGenerate == InitGenerate /\ [][NextGenerate]_vars

\* the requests of the call so far, and the sleeps, in order
Requests == SelectSeq(calls, LAMBDA c : c.fn = "stream")
Sleeps == SelectSeq(calls, LAMBDA c : c.fn = "sleep")

\* the rule of the call, given what makes a status error an overloaded one
GenerateRule(IsOverloaded(_)) ==
    /\ Len(Requests) <= 3
    /\ Len(Sleeps) <= 2
    /\ \A i \in 1..Len(Sleeps) : Sleeps[i].arg = 30 * (2 ^ (i - 1))
    /\ op = "generate" => (attempt < 3 /\ Len(Sleeps) = Len(Requests))
    /\ op /= "generate" => Len(Sleeps) = Len(Requests) - 1
    /\ \A i \in 1..Len(Sleeps) :
          /\ Requests[i].raised.type = "APIStatusError"
          /\ IsOverloaded(Requests[i].raised.message)
    /\ \A i \in 1..Len(calls) :
          calls[i].fn = "sleep" => (i > 1 /\ calls[i - 1].fn = "stream")
    /\ op = "returned" =>
          /\ Requests[Len(Requests)].raised = NoException
          /\ ret = Requests[Len(Requests)].arg
          /\ raised = NoException
    /\ op = "raised" =>
          LET last == Requests[Len(Requests)].raised
          IN  /\ last /= NoException
              /\ raised = last <=>
                    \/ last.type /= "APIStatusError"
                    \/ ~IsOverloaded(last.message)
                    \/ Len(Requests) = 3
              /\ raised /= last => raised = PrintRaised("API overloaded")
    /\ op \in {"generate", "returned", "raised"}

\* 'overloaded' in the text as it is
ContainsOverloaded(message) == Contains(OverloadedTag, message)

\* 'overloaded' in the text, each of its letters in either case
ContainsOverloadedAnyCase(message) ==
    \E i \in 1..(Len(message) - Len(OverloadedTag) + 1) :
        \A k \in 1..Len(OverloadedTag) :
            \E j \in 1..Len(Lowercase) :
                /\ Lowercase[j] = OverloadedTag[k]
                /\ message[i + k - 1] \in {Lowercase[j], Uppercase[j]}

\* C24 as stated: generate makes at most 3 attempts, retries only after an
\* APIStatusError whose text contains 'overloaded' and only after attempts
\* 1 and 2, sleeping 30 s then 60 s; any other APIStatusError and an
\* overloaded error on the 3rd attempt are re-raised at once; the call ends
\* by returning the text of one successful attempt or by raising.
C24_RetryOnOverloaded == GenerateRule(ContainsOverloaded)

\* C24, amended: the same rule, where an overloaded error is an
\* APIStatusError whose text contains 'overloaded' in any letter case
\* ('Overloaded' is retried too).
C24_RetryOnOverloadedAnyCase == GenerateRule(ContainsOverloadedAnyCase)

\* two overloaded errors with partial text, then a successful third attempt
C24_Witness ==
    /\ op = "returned"
    /\ Len(Requests) = 3
    /\ Requests[1].arg = <<"a">> /\ Requests[2].arg = <<"a", "b">>
    /\ Sleeps[1].arg = 30 /\ Sleeps[2].arg = 60
    /\ ret = <<"b">>

(***************************************************************************)
(* Order of the steps of a CLI run.                                        *)
(***************************************************************************)
\* the steps of main among the calls: 1 extract, 2 save of the text,
\* 3 conversion, 4 write of the output file; 0 for any other call
StepRank(c) ==
    IF c.fn = "extract" THEN 1
    ELSE IF c.fn = "write_text" /\ c.arg = "save_text" THEN 2
    ELSE IF c.fn = "convert_to_marp" THEN 3
    ELSE IF c.fn = "write_text" /\ c.arg = "output_marp" THEN 4
    ELSE 0

\* the steps made so far, in order
Steps == SelectSeq([i \in 1..Len(calls) |-> StepRank(calls[i])], LAMBDA r : r > 0)

\* the write of the output file was called and returned: the closing
\* messages were reached
OutputWritten == \E i \in 1..Len(calls) : calls[i].fn = "print"

\* C25: the steps of a CLI run happen in the order extract, optional save
\* of the text, conversion, write of the output file; the conversion is
\* called only after extraction returned non-blank text, the output file is
\* written only after the conversion returned without error, and a missing
\* or non-PDF input, blank extracted text or any exception ends the run
\* with exit status 1 and no output file written.
C25_StepOrder ==
    op \in {"parsed", "extracted", "converted", "exit"} =>
        /\ \A i \in 1..Len(Steps) : \A j \in 1..Len(Steps) : i < j => Steps[i] < Steps[j]
        /\ (\E i \in 1..Len(Steps) : Steps[i] = 2) => args.save_text
        /\ \A i \in 1..Len(calls) :
              calls[i].fn = "convert_to_marp" =>
                  /\ Steps[1] = 1
                  /\ Strip(calls[i].arg) /= <<>>
        /\ (\E i \in 1..Len(Steps) : Steps[i] = 4) =>
              /\ \E i \in 1..Len(Steps) : Steps[i] = 3
              /\ raised.type = "Exception" => raised.message[1] \in {"output_marp", "print"}
        /\ op = "exit" =>
              /\ (args.input /= "pdf") => (exit_status = 1 /\ calls = <<>>)
              /\ (Steps = <<1>> /\ raised.type = "none") => exit_status = 1
              /\ raised.type /= "none" => (exit_status = 1 /\ ~OutputWritten)
              /\ exit_status \in {0, 1}
              /\ exit_status = 0 => (OutputWritten /\ raised.type = "none")

(***************************************************************************)
(* Tables of glyph placeholders: page.extract_tables() on a page whose     *)
(* font has no text mapping yields grids whose cells are runs of (cid:N).  *)
(***************************************************************************)
\* "(cid:1)(cid:22)" and "(cid:3)(cid:44)": 15 characters each
GlyphCell  == <<"(", "c", "i", "d", ":", "1", ")",
                "(", "c", "i", "d", ":", "2", "2", ")">>
GlyphCell2 == <<"(", "c", "i", "d", ":", "3", ")",
                "(", "c", "i", "d", ":", "4", "4", ")">>

\* a grid of 5 rows and 2 columns of glyph placeholders
GlyphTable == [r \in 1..5 |-> <<GlyphCell, GlyphCell2>>]

\* what page.extract_tables() may hold on such a page
GlyphCandidates == {GlyphTable, DenseTable, SparseTable}

InitGlyph ==
    /\ op = "PDFExtractor"
    /\ pdf_path \in Paths
    /\ IF pdf_path \in Files
       THEN \E t \in PageTexts, n \in 0..1 :
               \/ doc = << [text |-> t, tables |-> <<>>, images |-> n] >>
               \/ \E a \in GlyphCandidates :
                     doc = << [text |-> t, tables |-> <<a>>, images |-> n] >>
               \/ \E a \in GlyphCandidates, b \in GlyphCandidates :
                     doc = << [text |-> t, tables |-> <<a, b>>, images |-> n] >>
       ELSE doc = Idle
    /\ page_range = NoRange
    /\ method = "none" /\ extract_tables = FALSE
    /\ page_idx = 0 /\ text_content = <<>> /\ visited = <<>>
    /\ total_pages = 0 /\ indices = Idle /\ ret = Idle
    /\ text = Idle /\ cleaned = Idle /\ table = Idle /\ stats = Idle
    /\ num_columns = 0
    /\ NoCli

SpecGlyph == InitGlyph /\ [][Next]_vars

\* C26: in the output of extract_with_pdfplumber every table index label is
\* followed by a non-empty rendered table: every grid accepted by
\* _is_valid_table is rendered by _format_table_as_markdown as a non-empty
\* string with a header line and a separator line.
C26_LabelledTablesNonEmpty ==
    (op = "done" /\ method = "pdfplumber" /\ extract_tables) =>
        /\ \A b \in 1..Len(ret) : \A i \in 1..Len(ret[b].parts) :
              ret[b].parts[i].kind = "table_label" =>
                  /\ i < Len(ret[b].parts)
                  /\ ret[b].parts[i + 1].kind = "table"
                  /\ ret[b].parts[i + 1].value /= <<>>
                  /\ Len(SplitLines(ret[b].parts[i + 1].value)) >= 2
        /\ \A k \in 1..Len(doc[1].tables) :
              _is_valid_table(doc[1].tables[k]) =>
                  /\ _format_table_as_markdown(doc[1].tables[k]) /= <<>>
                  /\ Len(SplitLines(_format_table_as_markdown(doc[1].tables[k]))) >= 2

====
